---- MODULE Spec2Model ----
(***************************************************************************)
(* Bubble Tea demo collection: every demo is an Elm-style program          *)
(* (initialModel / Init / Update / View) driven by tick, key and resize    *)
(* messages.  The module models the Update function of every animated      *)
(* demo, the View functions where they allocate or draw from random        *)
(* numbers, the glyph mappers, the text editor, the launcher, the table    *)
(* and the file picker with the parts their View draws, the line drawing   *)
(* of the cube, and what main does with the result of running the program. *)
(*                                                                         *)
(* Numbers.  Go float64 values are fixed-point integers in thousandths     *)
(* (1.0 is 1000).  The Mandelbrot centre and zoom target are in            *)
(* millionths.  int(x) truncates toward zero as Go's conversion does.      *)
(* math.Sin, math.Cos, math.Sqrt and math.Exp are integer approximations.  *)
(* math/rand is a counter-based generator: `seed` is its state, a handler  *)
(* reads its draws at fixed offsets from the state (one offset per place   *)
(* that may draw) and leaves the state past the offsets it used.           *)
(* All values stay inside 32-bit integers.  A glyph is written by its code *)
(* point ("U+2591").                                                       *)
(***************************************************************************)
EXTENDS Integers, Sequences, FiniteSets, TLC

VARIABLES
    prog,      \* which demo program is running
    m,         \* the program's model (the value Update returns)
    status,    \* "running", "quit" (tea.Quit handled), "failed" (Run returned
               \* an error) or "panic"
    fault,     \* what the program panicked on ("" while it has not)
    cmd,       \* the command the last Update returned
    pending,   \* tick commands issued and not yet delivered
    last,      \* the message (or "view") handled by the last step
    frame,     \* what the last View drew: the character grid (fire, fluid),
               \* the parts shown (table, file picker)
    seed,      \* math/rand generator state
    steps,     \* messages handled so far
    renders,   \* renders since the last message
    proc       \* the process main runs in: its phase, exit code, what it wrote
               \* to standard output and standard error, the child it started

vars == <<prog, m, status, fault, cmd, pending, last, frame, seed, steps, renders, proc>>

\* ------------------------------------------------------------------ bounds
\* messages per run; renders between two messages; rand.Seed values;
\* glyph-mapper calls per run; intensities range over
\* -MaxIntensity/20 .. 2*MaxIntensity/20
MaxSteps == 3
MaxRenders == 2
MaxSeed == 1
MaxCalls == 2
MaxIntensity == 30
\* arrow-key presses per run of the parameter keys alone
MaxPresses == 24
\* long runs: messages other than ticks at the start of a run; messages per run
MaxSetup == 2
MaxTicks == 52
\* line drawing alone: endpoint coordinates range over -MaxCoord .. MaxCoord
MaxCoord == 4

\* ------------------------------------------------------- fixed-point maths
S == 1000
Pi == (355 * S) \div 113

MinUnclamped(a, b) == a

Min(a, b) == IF a < b THEN a ELSE b
Max(a, b) == IF a > b THEN a ELSE b
Abs(a) == IF a < 0 THEN -a ELSE a

\* Division truncating toward zero, as Go's integer division and int().
Quot(a, b) ==
    IF (a >= 0) = (b > 0) THEN Abs(a) \div Abs(b) ELSE -(Abs(a) \div Abs(b))

\* Go's % on ints: the sign follows the dividend.
Rem(a, b) == a - b * Quot(a, b)

\* float64 product and quotient of two values in thousandths.
Mul(a, b) == Quot(a * b, S)
Div(a, b) == Quot(a * S, b)

\* int(x) of a float64 in thousandths.
IntOf(x) == Quot(x, S)

\* float64(n) of an int.
F(n) == n * S

\* common.Clamp
Clamp(value, lo, hi) == IF value < lo THEN lo ELSE IF value > hi THEN hi ELSE value

\* math.Sin on thousandths of a radian (Bhaskara's approximation).
SinHalf(x) ==
    LET p == (x * (Pi - x)) \div S
    IN  Quot(16 * p * S, (5 * Pi * Pi) \div S - 4 * p)
Sin(x) ==
    LET r == x % (2 * Pi)
    IN  IF r <= Pi THEN SinHalf(r) ELSE -SinHalf(r - Pi)
Cos(x) == Sin(x + Pi \div 2)

\* math.Sqrt on thousandths: the integer square root of x * 1000.
RECURSIVE ISqrt(_, _)
ISqrt(n, guess) ==
    IF guess * guess <= n /\ (guess + 1) * (guess + 1) > n THEN guess
    ELSE IF guess * guess > n THEN ISqrt(n, (guess + n \div guess) \div 2)
    ELSE ISqrt(n, guess + 1)
Sqrt(x) == IF x <= 0 THEN 0 ELSE ISqrt(x * S, Min(x + S, 46000))

\* math.Exp on thousandths: (1 + y + y^2/2 + y^3/6 + y^4/24)^8 with y = x/8.
Sq(x) == Mul(x, x)
ExpTerms(y, y2, y3) == S + y + Quot(y2, 2) + Quot(y3, 6) + Quot(Mul(y3, y), 24)
ExpSmall(y) == ExpTerms(y, Mul(y, y), Mul(Mul(y, y), y))
Exp(x) == Sq(Sq(Sq(ExpSmall(Quot(x, 8)))))

\* ------------------------------------------------------------- math/rand
\* rand.Float64() drawn at offset k from generator state s: in [0, 1).
RandFloat(s, k) == ((s + k) * 617 + 271) % S
\* rand.Intn(n), n > 0 (it panics otherwise; callers check).
RandIntn(s, k, n) == (((s + k) * 617 + 271) % 997) % n

\* ------------------------------------------------------------- messages
TickMsg == [type |-> "tick", key |-> "", w |-> 0, h |-> 0]
KeyMsg(k) == [type |-> "key", key |-> k, w |-> 0, h |-> 0]
WindowSizeMsg(w, h) == [type |-> "resize", key |-> "", w |-> w, h |-> h]
ViewStep == [type |-> "view", key |-> "", w |-> 0, h |-> 0]
NoMsg == [type |-> "init", key |-> "", w |-> 0, h |-> 0]

\* What Update returns: the model, the command, the generator state, and
\* whether the handler panicked instead of returning (and on what: "make"
\* for a negative length, "repeat" for a negative count, "index" for an
\* index out of range, "intn" for rand.Intn of a non-positive bound).
Ret(mm, c, sd) == [m |-> mm, cmd |-> c, seed |-> sd, panic |-> FALSE, why |-> ""]
Panicked(mm, sd, why) ==
    [m |-> mm, cmd |-> "none", seed |-> sd, panic |-> TRUE, why |-> why]
\* What a View returns.  A View of a demo is modelled by the allocations it
\* makes, which panic on a negative length; the glyphs it draws are part of
\* the model for fire and fluid only.
NoFrame(panics, sd) == [panic |-> panics, frame |-> <<>>, seed |-> sd]
\* Ret for a helper's result u = [m, seed].
RetOf(u, c) == Ret(u.m, c, u.seed)

\* make([][]T, rows) with rows of make([]T, cols) panics on a negative
\* length; no row is made when rows is 0.
MakePanics(rows, cols) == rows < 0 \/ (rows > 0 /\ cols < 0)
\* make([][]T, rows) with make([]T, cols) rows filled with `zero`.
MakeGrid(rows, cols, zero) == [y \in 0 .. rows - 1 |-> [x \in 0 .. cols - 1 |-> zero]]
\* len() of an array held as a function on 0 .. n-1.
Size(a) == Cardinality(DOMAIN a)

\* ------------------------------------------------------------------ plasma
PlasmaInitialModel ==
    [width |-> 80, height |-> 24, time |-> 0, speed |-> 1000, paused |-> FALSE,
     palette |-> 0, intensity |-> 1000]

PlasmaUpdate(mm, msg, sd) ==
    CASE msg.type = "resize" ->
            Ret([mm EXCEPT !.width = msg.w, !.height = msg.h - 4], "none", sd)
      [] msg.type = "tick" ->
            Ret(IF ~mm.paused THEN [mm EXCEPT !.time = @ + Mul(100, mm.speed)] ELSE mm,
                "tick", sd)
      [] OTHER ->
            CASE msg.key \in {"q", "ctrl+c"} -> Ret(mm, "quit", sd)
              [] msg.key = "space" -> Ret([mm EXCEPT !.paused = ~@], "none", sd)
              [] msg.key = "r" -> Ret([mm EXCEPT !.time = 0], "none", sd)
              [] msg.key = "1" -> Ret([mm EXCEPT !.palette = 0], "none", sd)
              [] msg.key = "2" -> Ret([mm EXCEPT !.palette = 1], "none", sd)
              [] msg.key = "3" -> Ret([mm EXCEPT !.palette = 2], "none", sd)
              [] msg.key = "4" -> Ret([mm EXCEPT !.palette = 3], "none", sd)
              [] msg.key = "up" -> Ret([mm EXCEPT !.speed = Min(@ + 200, 3000)], "none", sd)
              [] msg.key = "down" -> Ret([mm EXCEPT !.speed = Max(@ - 200, 100)], "none", sd)
              [] msg.key = "left" ->
                    Ret([mm EXCEPT !.intensity = Max(@ - 100, 300)], "none", sd)
              [] msg.key = "right" ->
                    Ret([mm EXCEPT !.intensity = Min(@ + 100, 2000)], "none", sd)
              [] OTHER -> Ret(mm, "none", sd)


\* ------------------------------------------------------------------ tunnel
TunnelInitialModel ==
    [width |-> 80, height |-> 24, time |-> 0, speed |-> 1000, tunnelMode |-> 0,
     paused |-> FALSE]

TunnelUpdate(mm, msg, sd) ==
    CASE msg.type = "resize" ->
            Ret([mm EXCEPT !.width = msg.w, !.height = msg.h - 4], "none", sd)
      [] msg.type = "tick" ->
            Ret(IF ~mm.paused THEN [mm EXCEPT !.time = @ + Mul(100, mm.speed)] ELSE mm,
                "tick", sd)
      [] OTHER ->
            CASE msg.key \in {"q", "ctrl+c"} -> Ret(mm, "quit", sd)
              [] msg.key = "space" -> Ret([mm EXCEPT !.paused = ~@], "none", sd)
              [] msg.key = "r" -> Ret([mm EXCEPT !.time = 0], "none", sd)
              [] msg.key = "1" -> Ret([mm EXCEPT !.tunnelMode = 0], "none", sd)
              [] msg.key = "2" -> Ret([mm EXCEPT !.tunnelMode = 1], "none", sd)
              [] msg.key = "3" -> Ret([mm EXCEPT !.tunnelMode = 2], "none", sd)
              [] msg.key = "4" -> Ret([mm EXCEPT !.tunnelMode = 3], "none", sd)
              [] msg.key = "up" -> Ret([mm EXCEPT !.speed = Min(@ + 200, 3000)], "none", sd)
              [] msg.key = "down" -> Ret([mm EXCEPT !.speed = Max(@ - 200, 100)], "none", sd)
              [] OTHER -> Ret(mm, "none", sd)


\* ------------------------------------------- vaporwave (line renderer)
VaporInitialModel ==
    [width |-> 80, height |-> 24, time |-> 0, speed |-> 1000, colorMode |-> 0,
     paused |-> FALSE]

VaporUpdate(mm, msg, sd) ==
    CASE msg.type = "resize" ->
            Ret([mm EXCEPT !.width = msg.w, !.height = msg.h - 4], "none", sd)
      [] msg.type = "tick" ->
            Ret(IF ~mm.paused THEN [mm EXCEPT !.time = @ + Mul(100, mm.speed)] ELSE mm,
                "tick", sd)
      [] OTHER ->
            CASE msg.key \in {"q", "ctrl+c"} -> Ret(mm, "quit", sd)
              [] msg.key = "space" -> Ret([mm EXCEPT !.paused = ~@], "none", sd)
              [] msg.key = "r" -> Ret([mm EXCEPT !.time = 0], "none", sd)
              [] msg.key = "1" -> Ret([mm EXCEPT !.colorMode = 0], "none", sd)
              [] msg.key = "2" -> Ret([mm EXCEPT !.colorMode = 1], "none", sd)
              [] msg.key = "3" -> Ret([mm EXCEPT !.colorMode = 2], "none", sd)
              [] msg.key = "4" -> Ret([mm EXCEPT !.colorMode = 3], "none", sd)
              [] msg.key = "up" -> Ret([mm EXCEPT !.speed = Min(@ + 200, 3000)], "none", sd)
              [] msg.key = "down" -> Ret([mm EXCEPT !.speed = Max(@ - 200, 100)], "none", sd)
              [] OTHER -> Ret(mm, "none", sd)

\* --------------------------------------------- scroller (line renderer)
\* len(m.message)
MessageLen == 70

ScrollerInitialModel ==
    [width |-> 80, height |-> 24, time |-> 0, scrollPos |-> 0, waveHeight |-> 3000,
     speed |-> 1000, font |-> 0, colorMode |-> 0, paused |-> FALSE]

ScrollerUpdate(mm, msg, sd) ==
    CASE msg.type = "resize" ->
            Ret([mm EXCEPT !.width = msg.w, !.height = msg.h - 4], "none", sd)
      [] msg.type = "tick" ->
            Ret(IF ~mm.paused
                THEN LET pos == mm.scrollPos + Mul(500, mm.speed)
                     IN  [mm EXCEPT !.time = @ + 100,
                                    !.scrollPos = IF pos > F(MessageLen * 8)
                                                  THEN -F(mm.width) ELSE pos]
                ELSE mm,
                "tick", sd)
      [] OTHER ->
            CASE msg.key \in {"q", "ctrl+c"} -> Ret(mm, "quit", sd)
              [] msg.key = "space" -> Ret([mm EXCEPT !.paused = ~@], "none", sd)
              [] msg.key = "r" ->
                    Ret([mm EXCEPT !.time = 0, !.scrollPos = -F(mm.width)], "none", sd)
              [] msg.key = "1" -> Ret([mm EXCEPT !.font = 0], "none", sd)
              [] msg.key = "2" -> Ret([mm EXCEPT !.font = 1], "none", sd)
              [] msg.key = "3" -> Ret([mm EXCEPT !.font = 2], "none", sd)
              [] msg.key = "4" -> Ret([mm EXCEPT !.colorMode = 0], "none", sd)
              [] msg.key = "5" -> Ret([mm EXCEPT !.colorMode = 1], "none", sd)
              [] msg.key = "6" -> Ret([mm EXCEPT !.colorMode = 2], "none", sd)
              [] msg.key = "7" -> Ret([mm EXCEPT !.colorMode = 3], "none", sd)
              [] msg.key = "up" -> Ret([mm EXCEPT !.speed = Min(@ + 200, 3000)], "none", sd)
              [] msg.key = "down" -> Ret([mm EXCEPT !.speed = Max(@ - 200, 100)], "none", sd)
              [] msg.key = "left" ->
                    Ret([mm EXCEPT !.waveHeight = Max(@ - 500, 500)], "none", sd)
              [] msg.key = "right" ->
                    Ret([mm EXCEPT !.waveHeight = Min(@ + 500, 8000)], "none", sd)
              [] OTHER -> Ret(mm, "none", sd)


\* --------------------------------------------- scroller (grid renderer)
\* initGrid: a height x width grid of blank glyphs; make panics on a
\* negative length.
GridInitGrid(mm) == [mm EXCEPT !.grid = MakeGrid(mm.height, mm.width, " ")]

GridScrollerInitialModel ==
    GridInitGrid(
        [width |-> 80, height |-> 24, grid |-> <<>>, time |-> 0, frame |-> 0,
         scrollPos |-> 0, waveHeight |-> 3000, speed |-> 1000, paused |-> FALSE,
         font |-> 0, colorMode |-> 0])

GridScrollerUpdate(mm, msg, sd) ==
    CASE msg.type = "resize" ->
            LET sized == [mm EXCEPT !.width = msg.w, !.height = msg.h - 4]
            IN  IF MakePanics(sized.height, sized.width)
                THEN Panicked(mm, sd, "make")
                ELSE Ret(GridInitGrid(sized), "none", sd)
      [] msg.type = "tick" ->
            Ret(IF ~mm.paused
                THEN LET pos == mm.scrollPos + Mul(800, mm.speed)
                         messageWidth == F(MessageLen * 6)
                     IN  [mm EXCEPT !.frame = @ + 1,
                                    !.time = @ + Mul(50, mm.speed),
                                    !.scrollPos = IF pos > messageWidth + F(mm.width)
                                                  THEN -F(mm.width) ELSE pos]
                ELSE mm,
                "tick", sd)
      [] OTHER ->
            CASE msg.key \in {"q", "ctrl+c"} -> Ret(mm, "quit", sd)
              [] msg.key = "space" -> Ret([mm EXCEPT !.paused = ~@], "none", sd)
              [] msg.key = "r" ->
                    Ret([mm EXCEPT !.time = 0, !.frame = 0, !.scrollPos = -F(mm.width)],
                        "none", sd)
              [] msg.key = "1" -> Ret([mm EXCEPT !.font = 0], "none", sd)
              [] msg.key = "2" -> Ret([mm EXCEPT !.font = 1], "none", sd)
              [] msg.key = "3" -> Ret([mm EXCEPT !.font = 2], "none", sd)
              [] msg.key = "4" -> Ret([mm EXCEPT !.colorMode = 0], "none", sd)
              [] msg.key = "5" -> Ret([mm EXCEPT !.colorMode = 1], "none", sd)
              [] msg.key = "6" -> Ret([mm EXCEPT !.colorMode = 2], "none", sd)
              [] msg.key = "7" -> Ret([mm EXCEPT !.colorMode = 3], "none", sd)
              [] msg.key = "up" ->
                    Ret([mm EXCEPT !.speed = Clamp(@ + 200, 100, 4000)], "none", sd)
              [] msg.key = "down" ->
                    Ret([mm EXCEPT !.speed = Clamp(@ - 200, 100, 4000)], "none", sd)
              [] msg.key = "left" ->
                    Ret([mm EXCEPT !.waveHeight = Clamp(@ - 500, 0, 8000)], "none", sd)
              [] msg.key = "right" ->
                    Ret([mm EXCEPT !.waveHeight = Clamp(@ + 500, 0, 8000)], "none", sd)
              [] OTHER -> Ret(mm, "none", sd)

\* ---------------------------------------------------------------- rotozoom
RotozoomInitialModel ==
    [width |-> 80, height |-> 24, time |-> 0, rotation |-> 0, zoom |-> 1000,
     offsetX |-> 0, offsetY |-> 0, pattern |-> 0, paused |-> FALSE]

\* A reset that steps the rotation back instead of zeroing it.
RotozoomResetDrifts(mm) ==
    [mm EXCEPT !.time = 0, !.rotation = @ - 20, !.offsetX = 0, !.offsetY = 0,
               !.zoom = 1000]

\* case "r"
RotozoomReset(mm) ==
    [mm EXCEPT !.time = 0, !.rotation = 0, !.offsetX = 0, !.offsetY = 0, !.zoom = 1000]

RotozoomUpdate(mm, msg, sd) ==
    CASE msg.type = "resize" ->
            Ret([mm EXCEPT !.width = msg.w, !.height = msg.h - 4], "none", sd)
      [] msg.type = "tick" ->
            Ret(IF ~mm.paused
                THEN LET t == mm.time + 100
                     IN  [mm EXCEPT !.time = t,
                                    !.rotation = @ + 20,
                                    !.zoom = 1000 + Mul(Sin(Mul(t, 300)), 800),
                                    !.offsetX = Sin(Mul(t, 150)) * 20,
                                    !.offsetY = Cos(Mul(t, 200)) * 15]
                ELSE mm,
                "tick", sd)
      [] OTHER ->
            CASE msg.key \in {"q", "ctrl+c"} -> Ret(mm, "quit", sd)
              [] msg.key = "space" -> Ret([mm EXCEPT !.paused = ~@], "none", sd)
              [] msg.key = "r" -> Ret(RotozoomReset(mm), "none", sd)
              [] msg.key = "1" -> Ret([mm EXCEPT !.pattern = 0], "none", sd)
              [] msg.key = "2" -> Ret([mm EXCEPT !.pattern = 1], "none", sd)
              [] msg.key = "3" -> Ret([mm EXCEPT !.pattern = 2], "none", sd)
              [] msg.key = "4" -> Ret([mm EXCEPT !.pattern = 3], "none", sd)
              [] msg.key = "5" -> Ret([mm EXCEPT !.pattern = 4], "none", sd)
              [] OTHER -> Ret(mm, "none", sd)

\* -------------------------------------------------------------------- cube
CubeInitialModel ==
    [width |-> 80, height |-> 24, rotationX |-> 0, rotationY |-> 0, rotationZ |-> 0,
     scale |-> 8000, autoRotate |-> TRUE, perspective |-> 4000, paused |-> FALSE]

CubeUpdate(mm, msg, sd) ==
    CASE msg.type = "resize" ->
            Ret([mm EXCEPT !.width = msg.w, !.height = msg.h - 4], "none", sd)
      [] msg.type = "tick" ->
            Ret(IF ~mm.paused /\ mm.autoRotate
                THEN [mm EXCEPT !.rotationX = @ + 20, !.rotationY = @ + 30,
                                !.rotationZ = @ + 10]
                ELSE mm,
                "tick", sd)
      [] OTHER ->
            CASE msg.key \in {"q", "ctrl+c"} -> Ret(mm, "quit", sd)
              [] msg.key = "space" -> Ret([mm EXCEPT !.paused = ~@], "none", sd)
              [] msg.key = "a" -> Ret([mm EXCEPT !.autoRotate = ~@], "none", sd)
              [] msg.key = "r" ->
                    Ret([mm EXCEPT !.rotationX = 0, !.rotationY = 0, !.rotationZ = 0],
                        "none", sd)
              [] msg.key = "up" ->
                    Ret(IF ~mm.autoRotate THEN [mm EXCEPT !.rotationX = @ - 100] ELSE mm,
                        "none", sd)
              [] msg.key = "down" ->
                    Ret(IF ~mm.autoRotate THEN [mm EXCEPT !.rotationX = @ + 100] ELSE mm,
                        "none", sd)
              [] msg.key = "left" ->
                    Ret(IF ~mm.autoRotate THEN [mm EXCEPT !.rotationY = @ - 100] ELSE mm,
                        "none", sd)
              [] msg.key = "right" ->
                    Ret(IF ~mm.autoRotate THEN [mm EXCEPT !.rotationY = @ + 100] ELSE mm,
                        "none", sd)
              [] msg.key \in {"+", "="} ->
                    Ret([mm EXCEPT !.scale = Min(@ + 1000, 20000)], "none", sd)
              [] msg.key = "-" -> Ret([mm EXCEPT !.scale = Max(@ - 1000, 2000)], "none", sd)
              [] msg.key = "z" ->
                    Ret(IF ~mm.autoRotate THEN [mm EXCEPT !.rotationZ = @ - 100] ELSE mm,
                        "none", sd)
              [] msg.key = "x" ->
                    Ret(IF ~mm.autoRotate THEN [mm EXCEPT !.rotationZ = @ + 100] ELSE mm,
                        "none", sd)
              [] msg.key = "p" ->
                    Ret([mm EXCEPT !.perspective = Max(@ - 500, 1000)], "none", sd)
              [] msg.key = "o" ->
                    Ret([mm EXCEPT !.perspective = Min(@ + 500, 10000)], "none", sd)
              [] OTHER -> Ret(mm, "none", sd)

\* -------------------------------------------------------------- mandelbrot
\* centerX, centerY and zoomTarget are in millionths, zoom in thousandths.
\* The zoom at which the tick starts over (1e15 in the source; the largest
\* zoom an integer of the model holds stands for it).
ZoomLimit == 2000000 * S

MandelbrotStart(mm, tr, ti, cx, cy) ==
    [mm EXCEPT !.zoomTarget = [real |-> tr, imag |-> ti], !.centerX = cx,
               !.centerY = cy, !.zoom = 1000, !.maxIter = 80]

MandelbrotInitialModel ==
    [width |-> 80, height |-> 24, centerX |-> -750000, centerY |-> 100000,
     zoom |-> 1000, maxIter |-> 80, autoZoom |-> TRUE, paused |-> FALSE,
     zoomTarget |-> [real |-> -746300, imag |-> 110200]]

MandelbrotUpdate(mm, msg, sd) ==
    CASE msg.type = "resize" ->
            Ret([mm EXCEPT !.width = msg.w, !.height = msg.h - 4], "none", sd)
      [] msg.type = "tick" ->
            Ret(IF ~mm.paused /\ mm.autoZoom
                THEN LET z == Quot(mm.zoom * 103, 100)
                         cx == mm.centerX + Quot(mm.zoomTarget.real - mm.centerX, 100)
                         cy == mm.centerY + Quot(mm.zoomTarget.imag - mm.centerY, 100)
                         it == IF z > 100000 /\ mm.maxIter < 150
                               THEN mm.maxIter + 1 ELSE mm.maxIter
                     IN  IF z > ZoomLimit
                         THEN [mm EXCEPT !.zoom = 1000, !.centerX = -750000,
                                         !.centerY = 100000, !.maxIter = 80]
                         ELSE [mm EXCEPT !.zoom = z, !.centerX = cx, !.centerY = cy,
                                         !.maxIter = it]
                ELSE mm,
                "tick", sd)
      [] OTHER ->
            CASE msg.key \in {"q", "ctrl+c"} -> Ret(mm, "quit", sd)
              [] msg.key = "space" -> Ret([mm EXCEPT !.paused = ~@], "none", sd)
              [] msg.key = "a" -> Ret([mm EXCEPT !.autoZoom = ~@], "none", sd)
              [] msg.key = "r" ->
                    Ret([mm EXCEPT !.centerX = -750000, !.centerY = 100000, !.zoom = 1000,
                                   !.maxIter = 80], "none", sd)
              [] msg.key = "up" ->
                    Ret(IF ~mm.autoZoom
                        THEN [mm EXCEPT !.centerY = @ - Quot(100000 * S, mm.zoom)] ELSE mm,
                        "none", sd)
              [] msg.key = "down" ->
                    Ret(IF ~mm.autoZoom
                        THEN [mm EXCEPT !.centerY = @ + Quot(100000 * S, mm.zoom)] ELSE mm,
                        "none", sd)
              [] msg.key = "left" ->
                    Ret(IF ~mm.autoZoom
                        THEN [mm EXCEPT !.centerX = @ - Quot(100000 * S, mm.zoom)] ELSE mm,
                        "none", sd)
              [] msg.key = "right" ->
                    Ret(IF ~mm.autoZoom
                        THEN [mm EXCEPT !.centerX = @ + Quot(100000 * S, mm.zoom)] ELSE mm,
                        "none", sd)
              [] msg.key \in {"+", "="} ->
                    Ret(IF ~mm.autoZoom THEN [mm EXCEPT !.zoom = Quot(@ * 12, 10)] ELSE mm,
                        "none", sd)
              [] msg.key = "-" ->
                    Ret(IF ~mm.autoZoom
                        THEN [mm EXCEPT !.zoom = Max(Quot(@ * 10, 12), 100)] ELSE mm,
                        "none", sd)
              [] msg.key = "1" ->
                    Ret(MandelbrotStart(mm, -746300, 110200, -750000, 100000), "none", sd)
              [] msg.key = "2" ->
                    Ret(MandelbrotStart(mm, -160000, 1040500, -200000, 1000000), "none", sd)
              [] msg.key = "3" ->
                    Ret(MandelbrotStart(mm, -745290, 113070, -750000, 110000), "none", sd)
              [] msg.key = "4" ->
                    Ret(MandelbrotStart(mm, -235125, 827215, -240000, 830000), "none", sd)
              [] msg.key = "i" ->
                    Ret([mm EXCEPT !.maxIter = Min(@ + 10, 200)], "none", sd)
              [] msg.key = "d" ->
                    Ret([mm EXCEPT !.maxIter = Max(@ - 10, 20)], "none", sd)
              [] OTHER -> Ret(mm, "none", sd)

\* ----------------------------------------------------------- progress bars
ProgressInitialModel ==
    [width |-> 40, paused |-> FALSE,
     bars |-> << [progress |-> 0, speed |-> 10, style |-> "classic"],
                 [progress |-> 0, speed |-> 15, style |-> "smooth"],
                 [progress |-> 0, speed |-> 12, style |-> "gradient"],
                 [progress |-> 0, speed |-> 18, style |-> "pulse"],
                 [progress |-> 0, speed |-> 20, style |-> "wave"],
                 [progress |-> 0, speed |-> 8, style |-> "blocks"] >>]

ProgressUpdate(mm, msg, sd) ==
    CASE msg.type = "tick" ->
            Ret(IF ~mm.paused
                THEN [mm EXCEPT !.bars =
                        [i \in DOMAIN mm.bars |->
                            LET p == mm.bars[i].progress + mm.bars[i].speed
                            IN  [mm.bars[i] EXCEPT !.progress = IF p > 1000 THEN 0 ELSE p]]]
                ELSE mm,
                "tick", sd)
      [] msg.type = "resize" ->
            Ret([mm EXCEPT !.width = Min(msg.w - 20, 60)], "none", sd)
      [] OTHER ->
            CASE msg.key \in {"q", "ctrl+c"} -> Ret(mm, "quit", sd)
              [] msg.key = "space" -> Ret([mm EXCEPT !.paused = ~@], "none", sd)
              [] msg.key = "r" ->
                    Ret([mm EXCEPT !.bars =
                            [i \in DOMAIN mm.bars |-> [mm.bars[i] EXCEPT !.progress = 0]]],
                        "none", sd)
              [] OTHER -> Ret(mm, "none", sd)

\* --------------------------------------------------------------- metaballs
MetaballsInitialModel ==
    [width |-> 80, height |-> 24, time |-> 0, threshold |-> 1000, paused |-> FALSE,
     colorMode |-> 0,
     metaballs |->
        << [x |-> 20000, y |-> 10000, vx |-> 800, vy |-> 300, radius |-> 8000,
            strength |-> 1000, colorPhase |-> 0],
           [x |-> 40000, y |-> 15000, vx |-> -500, vy |-> 700, radius |-> 6000,
            strength |-> 800, colorPhase |-> Pi \div 3],
           [x |-> 60000, y |-> 8000, vx |-> 600, vy |-> -400, radius |-> 7000,
            strength |-> 900, colorPhase |-> (2 * Pi) \div 3],
           [x |-> 30000, y |-> 20000, vx |-> -700, vy |-> -600, radius |-> 5000,
            strength |-> 700, colorPhase |-> Pi] >>]

\* updateMetaballs, one ball: move, bounce off the walls, wobble, limit the
\* velocity, animate radius and strength.  t is the frame clock.
UpdateMetaball(ball, width, height, t) ==
    LET x1 == ball.x + ball.vx
        y1 == ball.y + ball.vy
        hitX == x1 <= ball.radius \/ x1 >= F(width) - ball.radius
        hitY == y1 <= ball.radius \/ y1 >= F(height) - ball.radius
        vx1 == IF hitX THEN -ball.vx ELSE ball.vx
        vy1 == IF hitY THEN -ball.vy ELSE ball.vy
        x2 == IF hitX THEN Max(ball.radius, Min(F(width) - ball.radius, x1)) ELSE x1
        y2 == IF hitY THEN Max(ball.radius, Min(F(height) - ball.radius, y1)) ELSE y1
        vx2 == vx1 + Mul(Sin(Mul(t, 700) + ball.colorPhase), 50)
        vy2 == vy1 + Mul(Cos(Mul(t, 800) + ball.colorPhase), 50)
        vel == Sqrt(Mul(vx2, vx2) + Mul(vy2, vy2))
        fast == vel > 1500
    IN  [ball EXCEPT
            !.x = x2, !.y = y2,
            !.vx = IF fast THEN Mul(Div(vx2, vel), 1500) ELSE vx2,
            !.vy = IF fast THEN Mul(Div(vy2, vel), 1500) ELSE vy2,
            !.radius = 4000 + Mul(Sin(Mul(t, 1200) + ball.colorPhase), 2000),
            !.strength = 700 + Mul(Sin(Mul(t, 900) + ball.colorPhase), 300)]

\* case "r" assigns initialModel() to m, which also clears the paused flag.
\* The two assignments after it read msg.Width and msg.Height of a key
\* message, which carries no size; the model keeps the size the program had.
MetaballsUpdate(mm, msg, sd) ==
    CASE msg.type = "resize" ->
            Ret([mm EXCEPT !.width = msg.w, !.height = msg.h - 4], "none", sd)
      [] msg.type = "tick" ->
            Ret(IF ~mm.paused
                THEN LET t == mm.time + 100
                     IN  [mm EXCEPT !.time = t,
                            !.metaballs = [i \in DOMAIN mm.metaballs |->
                                UpdateMetaball(mm.metaballs[i], mm.width, mm.height, t)]]
                ELSE mm,
                "tick", sd)
      [] OTHER ->
            CASE msg.key \in {"q", "ctrl+c"} -> Ret(mm, "quit", sd)
              [] msg.key = "space" -> Ret([mm EXCEPT !.paused = ~@], "none", sd)
              [] msg.key = "r" ->
                    Ret([MetaballsInitialModel EXCEPT !.width = mm.width,
                                                      !.height = mm.height], "none", sd)
              [] msg.key = "1" -> Ret([mm EXCEPT !.colorMode = 0], "none", sd)
              [] msg.key = "2" -> Ret([mm EXCEPT !.colorMode = 1], "none", sd)
              [] msg.key = "3" -> Ret([mm EXCEPT !.colorMode = 2], "none", sd)
              [] msg.key = "4" -> Ret([mm EXCEPT !.colorMode = 3], "none", sd)
              [] msg.key = "up" ->
                    Ret([mm EXCEPT !.threshold = Min(@ + 100, 3000)], "none", sd)
              [] msg.key = "down" ->
                    Ret([mm EXCEPT !.threshold = Max(@ - 100, 300)], "none", sd)
              [] msg.key = "a" ->
                    Ret(IF Len(mm.metaballs) < 8
                        THEN [mm EXCEPT !.metaballs = Append(@,
                                [x |-> Quot(F(mm.width), 2), y |-> Quot(F(mm.height), 2),
                                 vx |-> Mul(Sin(mm.time), 800),
                                 vy |-> Mul(Cos(mm.time), 800),
                                 radius |-> 4000 + Mul(Sin(mm.time * 2), 2000),
                                 strength |-> 600 + Mul(Sin(mm.time * 3), 300),
                                 colorPhase |-> mm.time])]
                        ELSE mm,
                        "none", sd)
              [] msg.key = "d" ->
                    Ret(IF Len(mm.metaballs) > 1
                        THEN [mm EXCEPT !.metaballs = SubSeq(@, 1, Len(@) - 1)]
                        ELSE mm,
                        "none", sd)
              [] OTHER -> Ret(mm, "none", sd)

\* ----------------------------------------------------------- bouncing ball
BallInitialModel ==
    [width |-> 80, height |-> 24, gravity |-> 500, friction |-> 980, paused |-> FALSE,
     balls |-> << [x |-> 40000, y |-> 10000, vx |-> 2000, vy |-> 0, look |-> 0,
                   trail |-> <<>>] >>]

\* The trail after one tick: the current position is appended with age 0,
\* then every entry younger than 10 is aged by one and kept.
AgeTrail(trail) ==
    LET young == SelectSeq(trail, LAMBDA pos : pos.age < 10)
    IN  [i \in DOMAIN young |-> [young[i] EXCEPT !.age = @ + 1]]

\* The loop body with a wall bounce that turns the ball back but leaves it
\* where it overshot to.
UpdateBallOvershoots(ball, mm) ==
    LET trail == AgeTrail(Append(ball.trail, [x |-> ball.x, y |-> ball.y, age |-> 0]))
        vy1 == ball.vy + mm.gravity
        x1 == ball.x + ball.vx
        y1 == ball.y + vy1
        wall == x1 <= 0 \/ x1 >= F(mm.width - 1)
        vx2 == IF wall THEN Mul(-ball.vx, mm.friction) ELSE ball.vx
        x2 == x1
        top == y1 <= 0
        vy2 == IF top THEN Mul(-vy1, mm.friction) ELSE vy1
        y2 == IF top THEN 0 ELSE y1
        floor == y2 >= F(mm.height - 1)
        vy3 == IF floor THEN Mul(-vy2, mm.friction) ELSE vy2
        vx3 == IF floor THEN Mul(vx2, mm.friction) ELSE vx2
        y3 == IF floor THEN F(mm.height - 1) ELSE y2
        vy4 == IF floor /\ Abs(vy3) < 500 THEN -2000 ELSE vy3
    IN  [ball EXCEPT !.trail = trail, !.x = x2, !.y = y3, !.vx = vx3, !.vy = vy4]

\* The tick handler's loop body for one ball.
UpdateBall(ball, mm) ==
    LET trail == AgeTrail(Append(ball.trail, [x |-> ball.x, y |-> ball.y, age |-> 0]))
        vy1 == ball.vy + mm.gravity
        x1 == ball.x + ball.vx
        y1 == ball.y + vy1
        wall == x1 <= 0 \/ x1 >= F(mm.width - 1)
        vx2 == IF wall THEN Mul(-ball.vx, mm.friction) ELSE ball.vx
        x2 == IF wall THEN Max(0, Min(F(mm.width - 1), x1)) ELSE x1
        top == y1 <= 0
        vy2 == IF top THEN Mul(-vy1, mm.friction) ELSE vy1
        y2 == IF top THEN 0 ELSE y1
        floor == y2 >= F(mm.height - 1)
        vy3 == IF floor THEN Mul(-vy2, mm.friction) ELSE vy2
        vx3 == IF floor THEN Mul(vx2, mm.friction) ELSE vx2
        y3 == IF floor THEN F(mm.height - 1) ELSE y2
        vy4 == IF floor /\ Abs(vy3) < 500 THEN -2000 ELSE vy3
    IN  [ball EXCEPT !.trail = trail, !.x = x2, !.y = y3, !.vx = vx3, !.vy = vy4]

BallUpdate(mm, msg, sd) ==
    CASE msg.type = "resize" ->
            Ret([mm EXCEPT !.width = msg.w, !.height = msg.h - 4], "none", sd)
      [] msg.type = "tick" ->
            Ret(IF ~mm.paused
                THEN [mm EXCEPT !.balls = [i \in DOMAIN mm.balls |->
                                              UpdateBall(mm.balls[i], mm)]]
                ELSE mm,
                "tick", sd)
      [] OTHER ->
            CASE msg.key \in {"q", "ctrl+c"} -> Ret(mm, "quit", sd)
              [] msg.key = "space" -> Ret([mm EXCEPT !.paused = ~@], "none", sd)
              [] msg.key = "r" -> Ret(BallInitialModel, "none", sd)
              [] msg.key = "g" -> Ret([mm EXCEPT !.gravity = -@], "none", sd)
              [] msg.key = "up" ->
                    Ret(IF Len(mm.balls) > 0 THEN [mm EXCEPT !.balls[1].vy = @ - 3000]
                        ELSE mm, "none", sd)
              [] msg.key = "left" ->
                    Ret(IF Len(mm.balls) > 0 THEN [mm EXCEPT !.balls[1].vx = @ - 1000]
                        ELSE mm, "none", sd)
              [] msg.key = "right" ->
                    Ret(IF Len(mm.balls) > 0 THEN [mm EXCEPT !.balls[1].vx = @ + 1000]
                        ELSE mm, "none", sd)
              [] msg.key = "a" ->
                    Ret(IF Len(mm.balls) < 5
                        THEN [mm EXCEPT !.balls = Append(@,
                                [x |-> Quot(F(mm.width), 2), y |-> 5000,
                                 vx |-> Mul(F(Len(mm.balls)) - 2500, 800), vy |-> 0,
                                 look |-> Len(mm.balls) % 5, trail |-> <<>>])]
                        ELSE mm,
                        "none", sd)
              [] OTHER -> Ret(mm, "none", sd)

\* ------------------------------------------- vaporwave (grid renderer)
\* The four color modes are a fixed table; a color is its index in the
\* mode's gradient.  A shape or particle glyph is its index in the glyph
\* table it was drawn from.

\* generateShapes: twelve shapes, ten draws each.
GenerateShapes(mm, sd) ==
    [m |-> [mm EXCEPT !.shapes = [i \in 1 .. 12 |->
                LET r(j) == RandFloat(sd, 10 * (i - 1) + j)
                    layer == r(0)
                    yRange == IF layer < 300 THEN Mul(F(mm.height), 700)
                              ELSE IF layer < 700 THEN Mul(F(mm.height), 500)
                              ELSE Mul(F(mm.height), 300)
                    speed == IF layer < 300 THEN 200 ELSE IF layer < 700 THEN 400 ELSE 600
                    sizeRange == IF layer < 300 THEN 500
                                 ELSE IF layer < 700 THEN 1000 ELSE 1500
                IN  [x |-> Mul(r(1), F(mm.width)),
                     y |-> Mul(r(2), yRange),
                     vx |-> Mul(r(3) - 500, speed),
                     vy |-> Mul(Mul(r(4) - 500, speed), 300),
                     size |-> 500 + Mul(r(5), sizeRange),
                     rotation |-> Mul(r(6), Pi) * 2,
                     rotSpeed |-> Mul(r(7) - 500, 50),
                     shape |-> RandIntn(sd, 10 * (i - 1) + 8, 16),
                     color |-> RandIntn(sd, 10 * (i - 1) + 9, 6),
                     age |-> 0]]],
     seed |-> sd + 120]

GridVaporInitialModel(sd) ==
    GenerateShapes(
        GridInitGrid([width |-> 80, height |-> 24, grid |-> <<>>, time |-> 0,
                      speed |-> 1000, paused |-> FALSE, frame |-> 0, shapes |-> <<>>,
                      particles |-> <<>>, mode |-> 0, showShapes |-> TRUE,
                      showFog |-> TRUE, gridIntensity |-> 1200, sunPulse |-> TRUE]),
        sd)

\* emitParticles: the particles after it ran, and the draws it made.
EmitParticles(mm, sd) ==
    LET r(j) == RandFloat(sd, j)
    IN  IF Len(mm.particles) >= 30 THEN [particles |-> mm.particles, draws |-> 0]
        ELSE IF r(0) >= 400 THEN [particles |-> mm.particles, draws |-> 1]
        ELSE IF r(1) < 600
        THEN [particles |-> Append(mm.particles,
                [x |-> Mul(r(2), F(mm.width)), y |-> Mul(r(3), F(Quot(mm.height, 2))),
                 vx |-> Mul(r(4) - 500, 300), vy |-> Mul(r(5) - 500, 200),
                 life |-> 1000, char |-> RandIntn(sd, 6, 7), color |-> 0]),
              draws |-> 7]
        ELSE IF r(1) < 800
        THEN [particles |-> Append(mm.particles,
                [x |-> Mul(r(2), F(mm.width)), y |-> F(mm.height),
                 vx |-> Mul(r(3) - 500, 100), vy |-> -Mul(r(4), 300) - 100,
                 life |-> 1500, char |-> RandIntn(sd, 5, 6),
                 color |-> RandIntn(sd, 6, 6)]),
              draws |-> 7]
        ELSE [particles |-> Append(mm.particles,
                [x |-> Mul(r(2), F(mm.width)),
                 y |-> Mul(r(3), F(Quot(mm.height * 2, 3))),
                 vx |-> Mul(r(4) - 500, 150), vy |-> Mul(r(5) - 500, 100),
                 life |-> 2000, char |-> RandIntn(sd, 6, 5),
                 color |-> RandIntn(sd, 7, 4)]),
              draws |-> 8]

\* updateScene, one shape (idx is its 0-based index).
MoveShape(s, idx, mm) ==
    LET x1 == s.x + Mul(s.vx, mm.speed)
        age1 == s.age + 10
        y1 == s.y + Mul(s.vy, mm.speed) + Mul(Sin(age1 * 2 + F(idx)), 100)
        third == F(Quot(mm.height, 3))
    IN  [s EXCEPT !.x = IF x1 < 0 THEN F(mm.width)
                        ELSE IF x1 > F(mm.width) THEN 0 ELSE x1,
                  !.y = IF y1 < 0 THEN third ELSE IF y1 > third THEN 0 ELSE y1,
                  !.rotation = @ + Mul(s.rotSpeed, mm.speed),
                  !.age = age1]

\* A particle loop that collects the survivors newest first.
MoveFogNewestFirst(ps, mm) ==
    LET kept == SelectSeq([i \in DOMAIN ps |->
                              [ps[i] EXCEPT !.x = @ + Mul(ps[i].vx, mm.speed),
                                            !.y = @ + Mul(ps[i].vy, mm.speed),
                                            !.life = @ - 20]],
                          LAMBDA p : p.life > 0 /\ p.x >= 0 /\ p.x < F(mm.width)
                                     /\ p.y >= 0 /\ p.y < F(mm.height))
    IN  [i \in DOMAIN kept |-> kept[Len(kept) + 1 - i]]

\* updateScene's particle loop: move, age, and drop the dead and the
\* off-screen.
MoveFog(ps, mm) ==
    SelectSeq([i \in DOMAIN ps |-> [ps[i] EXCEPT !.x = @ + Mul(ps[i].vx, mm.speed),
                                                 !.y = @ + Mul(ps[i].vy, mm.speed),
                                                 !.life = @ - 20]],
              LAMBDA p : p.life > 0 /\ p.x >= 0 /\ p.x < F(mm.width) /\ p.y >= 0
                         /\ p.y < F(mm.height))

SceneWith(mm, shapes, emitted, sd) ==
    IF mm.showFog
    THEN [m |-> [mm EXCEPT !.shapes = shapes, !.particles = MoveFog(emitted.particles, mm)],
          seed |-> sd + emitted.draws]
    ELSE [m |-> [mm EXCEPT !.shapes = shapes], seed |-> sd]

UpdateScene(mm, sd) ==
    SceneWith(mm, [i \in DOMAIN mm.shapes |-> MoveShape(mm.shapes[i], i - 1, mm)],
              EmitParticles(mm, sd), sd)

GridVaporSetMode(mm, mode, sd) ==
    IF mode # mm.mode
    THEN RetOf(GenerateShapes([mm EXCEPT !.mode = mode], sd), "none")
    ELSE Ret(mm, "none", sd)

GridVaporUpdate(mm, msg, sd) ==
    CASE msg.type = "resize" ->
            LET sized == [mm EXCEPT !.width = msg.w, !.height = msg.h - 4]
            IN  IF MakePanics(sized.height, sized.width)
                THEN Panicked(mm, sd, "make")
                ELSE RetOf(GenerateShapes(GridInitGrid(sized), sd), "none")
      [] msg.type = "tick" ->
            IF ~mm.paused
            THEN RetOf(UpdateScene([mm EXCEPT !.frame = @ + 1,
                                               !.time = @ + Mul(50, mm.speed)], sd),
                       "tick")
            ELSE Ret(mm, "tick", sd)
      [] OTHER ->
            CASE msg.key \in {"q", "ctrl+c"} -> Ret(mm, "quit", sd)
              [] msg.key = "space" -> Ret([mm EXCEPT !.paused = ~@], "none", sd)
              [] msg.key = "r" ->
                    LET made == GenerateShapes([mm EXCEPT !.time = 0, !.frame = 0], sd)
                    IN  Ret([made.m EXCEPT !.particles = <<>>], "none", made.seed)
              [] msg.key \in {"1", "2", "3", "4"} ->
                    GridVaporSetMode(mm, CHOOSE i \in 0 .. 3 :
                                            msg.key = <<"1", "2", "3", "4">>[i + 1], sd)
              [] msg.key = "s" -> Ret([mm EXCEPT !.showShapes = ~@], "none", sd)
              [] msg.key = "f" -> Ret([mm EXCEPT !.showFog = ~@], "none", sd)
              [] msg.key = "p" -> Ret([mm EXCEPT !.sunPulse = ~@], "none", sd)
              [] msg.key = "up" ->
                    Ret([mm EXCEPT !.speed = Clamp(@ + 200, 100, 3000)], "none", sd)
              [] msg.key = "down" ->
                    Ret([mm EXCEPT !.speed = Clamp(@ - 200, 100, 3000)], "none", sd)
              [] msg.key = "left" ->
                    Ret([mm EXCEPT !.gridIntensity = Clamp(@ - 200, 200, 2000)],
                        "none", sd)
              [] msg.key = "right" ->
                    Ret([mm EXCEPT !.gridIntensity = Clamp(@ + 200, 200, 2000)],
                        "none", sd)
              [] OTHER -> Ret(mm, "none", sd)

\* -------------------------------------------------------------------- fire
\* fireField is nil (length 0) until the first resize or reset.
FireInitialModel ==
    [width |-> 80, height |-> 24, fireField |-> MakeGrid(0, 0, 0), intensity |-> 1000,
     windForce |-> 0, paused |-> FALSE]

\* initFireField: make panics on a negative length.
InitFireField(mm) == [mm EXCEPT !.fireField = MakeGrid(mm.height, mm.width, 0)]

\* The bottom row after the heat sources are written into the old field:
\* column x draws at offsets 2x (is it lit) and 2x+1 (its heat).
FireSources(mm, sd) ==
    LET bottomRow == mm.height - 1
    IN  [x \in 0 .. mm.width - 1 |->
            LET heat == Mul(800 + Mul(RandFloat(sd, 2 * x + 1), 200), mm.intensity)
            IN  IF RandFloat(sd, 2 * x) < 700
                THEN IF x % 3 = 0 \/ x % 7 = 0 THEN Mul(heat, 1200) ELSE heat
                ELSE mm.fireField[bottomRow][x]]

\* The body of updateFire's propagation loop: the heat of cell (y, x) of the
\* new field, from the old field with the heat sources written into it.
FireCell(mm, old, sd, y, x) ==
    LET h == mm.height
        w == mm.width
        windOffset == IntOf(mm.windForce * 2)
        below == IF y < h - 1
                 THEN Mul(old[y + 1][x], 400)
                      + (IF x > 0 THEN Mul(old[y + 1][x - 1], 200) ELSE 0)
                      + (IF x < w - 1 THEN Mul(old[y + 1][x + 1], 200) ELSE 0)
                 ELSE 0
        windX == x - windOffset
        blown == IF windX >= 0 /\ windX < w /\ y < h - 1
                 THEN Mul(old[y + 1][windX], 200) ELSE 0
        noise == Mul(RandFloat(sd, 2 * w + (y - 1) * w + x) - 500, 100)
        coolingFactor == 950 - Mul(Div(F(h - y), F(h)), 300)
        spread == (IF x > 0 THEN Mul(old[y][x - 1], 100) ELSE 0)
                  + (IF x < w - 1 THEN Mul(old[y][x + 1], 100) ELSE 0)
    IN  Max(0, Mul(below + blown + noise, coolingFactor) + spread)

\* An updateFire whose new field starts as a copy of the old one, so that the
\* row the loop skips keeps its old heat.
UpdateFireKeepsTop(mm, sd) ==
    IF Size(mm.fireField) = 0 THEN [m |-> mm, seed |-> sd]
    ELSE
      LET h == mm.height
          w == mm.width
          old == [mm.fireField EXCEPT ![h - 1] = FireSources(mm, sd)]
      IN  [m |-> [mm EXCEPT !.fireField =
                    [y \in 0 .. h - 1 |-> [x \in 0 .. w - 1 |->
                        IF y = 0 THEN old[0][x] ELSE FireCell(mm, old, sd, y, x)]]],
           seed |-> sd + 2 * w + (h - 1) * w]

\* updateFire.  The loop starts at row 1: row 0 of the new field is never
\* written and keeps the 0.0 make gave it.
UpdateFire(mm, sd) ==
    IF Size(mm.fireField) = 0 THEN [m |-> mm, seed |-> sd]
    ELSE
      LET h == mm.height
          w == mm.width
          old == [mm.fireField EXCEPT ![h - 1] = FireSources(mm, sd)]
      IN  [m |-> [mm EXCEPT !.fireField =
                    [y \in 0 .. h - 1 |-> [x \in 0 .. w - 1 |->
                        IF y = 0 THEN 0 ELSE FireCell(mm, old, sd, y, x)]]],
           seed |-> sd + 2 * w + (h - 1) * w]

\* A tick handler that forgets the paused flag.
FireTickIgnoringPause(mm, sd) == RetOf(UpdateFire(mm, sd), "tick")

\* The tick handler: updateFire runs only while the demo is not paused.
FireTick(mm, sd) ==
    IF ~mm.paused
    THEN RetOf(UpdateFire(mm, sd), "tick")
    ELSE Ret(mm, "tick", sd)

FireUpdate(mm, msg, sd) ==
    CASE msg.type = "resize" ->
            LET sized == [mm EXCEPT !.width = msg.w, !.height = msg.h - 4]
            IN  IF MakePanics(sized.height, sized.width) THEN Panicked(mm, sd, "make")
                ELSE Ret(InitFireField(sized), "none", sd)
      [] msg.type = "tick" -> FireTick(mm, sd)
      [] OTHER ->
            CASE msg.key \in {"q", "ctrl+c"} -> Ret(mm, "quit", sd)
              [] msg.key = "space" -> Ret([mm EXCEPT !.paused = ~@], "none", sd)
              [] msg.key = "r" ->
                    IF MakePanics(mm.height, mm.width) THEN Panicked(mm, sd, "make")
                    ELSE Ret(InitFireField(mm), "none", sd)
              [] msg.key = "up" ->
                    Ret([mm EXCEPT !.intensity = Min(@ + 100, 2000)], "none", sd)
              [] msg.key = "down" ->
                    Ret([mm EXCEPT !.intensity = Max(@ - 100, 100)], "none", sd)
              [] msg.key = "left" ->
                    Ret([mm EXCEPT !.windForce = Max(@ - 100, -1000)], "none", sd)
              [] msg.key = "right" ->
                    Ret([mm EXCEPT !.windForce = Min(@ + 100, 1000)], "none", sd)
              [] msg.key = "0" -> Ret([mm EXCEPT !.windForce = 0], "none", sd)
              [] OTHER -> Ret(mm, "none", sd)

\* getFireChar: the glyph for a heat value; k is the index of the rand.Intn
\* draw (made only when heat >= 0.1).
FireGlyphs(heat) ==
    IF heat < 100 THEN <<" ">>
    ELSE IF heat < 200 THEN <<".", "U+00B7", "U+2218">>
    ELSE IF heat < 350 THEN <<"U+2218", "U+2022", "U+25E6">>
    ELSE IF heat < 500 THEN <<"U+2581", "U+2582", "U+2583">>
    ELSE IF heat < 650 THEN <<"U+2584", "U+2585", "U+2586">>
    ELSE IF heat < 800 THEN <<"U+2587", "U+2588", "U+2589">>
    ELSE IF heat < 950 THEN <<"U+2593", "U+2592", "U+2591">>
    ELSE <<"U+2593", "U+2592", "U+2591", "U+2594">>
GetFireChar(heat, sd, k) ==
    IF heat < 100 THEN " "
    ELSE FireGlyphs(heat)[RandIntn(sd, k, Len(FireGlyphs(heat))) + 1]

\* View: the character grid drawn from the fire field; cell (y, x) draws at
\* offset y * width + x.
FireView(mm, sd) ==
    IF Size(mm.fireField) = 0
    THEN [panic |-> FALSE, frame |-> <<>>, seed |-> sd]
    ELSE LET h == mm.height
             w == mm.width
             draws == \E y \in 0 .. h - 1 : \E x \in 0 .. w - 1 :
                         mm.fireField[y][x] >= 100
         IN  [panic |-> FALSE,
              frame |-> [y \in 0 .. h - 1 |-> [x \in 0 .. w - 1 |->
                            GetFireChar(mm.fireField[y][x], sd, y * w + x)]],
              seed |-> IF draws THEN sd + h * w ELSE sd]

\* ------------------------------------------------------------------- fluid
\* surface is nil (length 0) until the first resize or reset.
FluidInitialModel ==
    [width |-> 80, height |-> 24, droplets |-> <<>>, surface |-> MakeGrid(0, 0, 0),
     time |-> 0, gravity |-> 300, viscosity |-> 980, paused |-> FALSE, mode |-> "rain"]

InitSurface(mm) == [mm EXCEPT !.surface = MakeGrid(mm.height, mm.width, 0)]

AddDroplet(droplets, x, y, vx, vy, size) ==
    IF Len(droplets) < 150
    THEN Append(droplets, [x |-> x, y |-> y, vx |-> vx, vy |-> vy, life |-> 1000,
                           size |-> size, ripples |-> <<>>])
    ELSE droplets

\* The droplets after the mode's generator ran, and the draws it made.
GenerateDroplets(mm, sd) ==
    LET r(k) == RandFloat(sd, k)
    IN  CASE mm.mode = "rain" ->
                IF r(0) < 300
                THEN [droplets |-> AddDroplet(mm.droplets, Mul(r(1), F(mm.width)), 0,
                                              Mul(r(3) - 500, 500), 0, 500 + Mul(r(2), 500)),
                      draws |-> 4]
                ELSE [droplets |-> mm.droplets, draws |-> 1]
          [] mm.mode = "drops" ->
                IF r(0) < 100
                THEN [droplets |-> AddDroplet(mm.droplets, Mul(r(1), F(mm.width)),
                                              Mul(r(2), F(Quot(mm.height, 2))),
                                              (r(3) - 500) * 2, r(4) * 2,
                                              300 + Mul(r(5), 400)),
                      draws |-> 6]
                ELSE [droplets |-> mm.droplets, draws |-> 1]
          [] mm.mode = "fountain" ->
                IF r(0) < 400
                THEN [droplets |-> AddDroplet(mm.droplets,
                                              Quot(F(mm.width), 2) + (r(1) - 500) * 10,
                                              F(mm.height) - 5000,
                                              (r(2) - 500) * 3, -3000 - r(3) * 2,
                                              400 + Mul(r(4), 300)),
                      draws |-> 5]
                ELSE [droplets |-> mm.droplets, draws |-> 1]
          [] OTHER -> [droplets |-> mm.droplets, draws |-> 0]

\* One droplet's step in updateSimulation.
UpdateDroplet(d, mm) ==
    LET vy1 == d.vy + mm.gravity
        x1 == d.x + d.vx
        y1 == d.y + vy1
        life1 == d.life - 10
        grown == [j \in DOMAIN d.ripples |->
                     [d.ripples[j] EXCEPT !.radius = @ + 500,
                                          !.strength = Mul(@, 950), !.age = @ + 100]]
        ripples1 == SelectSeq(grown, LAMBDA rp : rp.strength > 10 /\ rp.radius < 20000)
        hit == y1 >= F(mm.height) - 10000 /\ vy1 > 0
        ripples2 == IF hit /\ Len(ripples1) < 5
                    THEN Append(ripples1,
                                [x |-> x1, y |-> y1, radius |-> 0,
                                 strength |-> Min(Mul(Abs(vy1), d.size), 2000), age |-> 0])
                    ELSE ripples1
        vy2 == IF hit THEN Mul(-vy1, 300) ELSE vy1
        vx2 == IF hit THEN Mul(d.vx, 700) ELSE d.vx
        life2 == IF hit THEN life1 - 200 ELSE life1
        out == x1 < 0 \/ x1 >= F(mm.width)
        vx3 == IF out THEN Mul(-vx2, 800) ELSE vx2
        x3 == IF out THEN Max(0, Min(F(mm.width - 1), x1)) ELSE x1
    IN  [d EXCEPT !.x = x3, !.y = y1, !.vx = vx3, !.vy = vy2, !.life = life2,
                  !.ripples = ripples2]

\* addRippleToSurface: the wave height ripple r gives cell (y, x); 0 when the
\* ripple does not write the cell.  A ripple of radius 0 divides by zero
\* (NaN), and the comparison with NaN is false.
RippleAt(r, y, x) ==
    LET dx == x - IntOf(r.x)
        dy == y - IntOf(r.y)
        radius == IntOf(r.radius)
        dist == Sqrt(F(dx * dx + dy * dy))
    IN  IF Abs(dx) > radius \/ Abs(dy) > radius \/ dist > r.radius \/ r.radius = 0
        THEN 0
        ELSE Max(0, Mul(r.strength, Cos(Div(Mul(dist, Pi), r.radius * 2))))

MaxOf(values) == CHOOSE v \in values : \A u \in values : u <= v

\* updateSurface: the surface is cleared, every ripple is added, then the
\* base wave raises one cell of each column to at least 0.3.
UpdateSurface(mm) ==
    LET ripples == UNION {{d.ripples[j] : j \in DOMAIN d.ripples} :
                            d \in {mm.droplets[i] : i \in DOMAIN mm.droplets}}
        waterLevel == F(mm.height) - 8000
        WaveRow(x) ==
            IntOf(waterLevel + Mul(Sin(x * 200 + mm.time * 2), 500)
                             + Mul(Sin(x * 100 + Mul(mm.time, 1500)), 300))
    IN  [mm EXCEPT !.surface =
            [y \in 0 .. mm.height - 1 |-> [x \in 0 .. mm.width - 1 |->
                MaxOf({0} \cup {RippleAt(r, y, x) : r \in ripples}
                          \cup (IF WaveRow(x) = y THEN {300} ELSE {}))]]]

\* updateSimulation
UpdateSimulation(mm, sd) ==
    IF Size(mm.surface) = 0 THEN [m |-> mm, seed |-> sd]
    ELSE LET gen == GenerateDroplets(mm, sd)
             moved == [i \in DOMAIN gen.droplets |-> UpdateDroplet(gen.droplets[i], mm)]
             alive == SelectSeq(moved, LAMBDA d : d.life > 0 /\ d.y < F(mm.height))
         IN  [m |-> UpdateSurface([mm EXCEPT !.droplets = alive]),
              seed |-> sd + gen.draws]

FluidUpdate(mm, msg, sd) ==
    CASE msg.type = "resize" ->
            LET sized == [mm EXCEPT !.width = msg.w, !.height = msg.h - 4]
            IN  IF MakePanics(sized.height, sized.width) THEN Panicked(mm, sd, "make")
                ELSE Ret(InitSurface(sized), "none", sd)
      [] msg.type = "tick" ->
            IF ~mm.paused
            THEN LET u == UpdateSimulation([mm EXCEPT !.time = @ + 100], sd)
                 IN  Ret(u.m, "tick", u.seed)
            ELSE Ret(mm, "tick", sd)
      [] OTHER ->
            CASE msg.key \in {"q", "ctrl+c"} -> Ret(mm, "quit", sd)
              [] msg.key = "space" -> Ret([mm EXCEPT !.paused = ~@], "none", sd)
              [] msg.key = "r" ->
                    IF MakePanics(mm.height, mm.width) THEN Panicked(mm, sd, "make")
                    ELSE Ret([InitSurface(mm) EXCEPT !.droplets = <<>>, !.time = 0],
                             "none", sd)
              [] msg.key = "1" -> Ret([mm EXCEPT !.mode = "rain"], "none", sd)
              [] msg.key = "2" -> Ret([mm EXCEPT !.mode = "drops"], "none", sd)
              [] msg.key = "3" -> Ret([mm EXCEPT !.mode = "fountain"], "none", sd)
              [] msg.key = "up" ->
                    Ret([mm EXCEPT !.gravity = Min(@ + 100, 1000)], "none", sd)
              [] msg.key = "down" ->
                    Ret([mm EXCEPT !.gravity = Max(@ - 100, 100)], "none", sd)
              [] msg.key = "left" ->
                    Ret([mm EXCEPT !.viscosity = Max(@ - 10, 900)], "none", sd)
              [] msg.key = "right" ->
                    Ret([mm EXCEPT !.viscosity = Min(@ + 10, 990)], "none", sd)
              [] msg.key = "c" ->
                    Ret([mm EXCEPT !.droplets =
                            AddDroplet(@, Quot(F(mm.width), 2), 5000, 0, 0, 1000)],
                        "none", sd)
              [] OTHER -> Ret(mm, "none", sd)

\* getFluidChar draws a random number for a cell that holds no droplet and
\* whose surface value is positive.
FluidDropletAt(mm, y, x) ==
    {i \in DOMAIN mm.droplets : IntOf(mm.droplets[i].x) = x /\ IntOf(mm.droplets[i].y) = y}

FluidGlyphs(intensity) ==
    IF intensity > 600 THEN <<"U+2588", "U+2593", "U+2592">>
    ELSE IF intensity > 300 THEN <<"U+2592", "U+2591", "U+25AB">>
    ELSE <<"U+2591", "U+25AB", "U+00B7">>

GetFluidChar(mm, y, x, sd, k) ==
    LET here == FluidDropletAt(mm, y, x)
    IN  IF here # {}
        THEN LET first == CHOOSE i \in here : \A j \in here : i <= j
             IN  IF mm.droplets[first].size > 700 THEN "U+25CF" ELSE "U+2022"
        ELSE IF mm.surface[y][x] > 0
        THEN FluidGlyphs(mm.surface[y][x])[RandIntn(sd, k, 3) + 1]
        ELSE IF F(y) >= F(mm.height) - 8000 THEN "U+2591"
        ELSE " "

\* View: cell (y, x) draws at offset y * width + x.
FluidView(mm, sd) ==
    IF Size(mm.surface) = 0
    THEN [panic |-> FALSE, frame |-> <<>>, seed |-> sd]
    ELSE LET h == mm.height
             w == mm.width
             draws == \E y \in 0 .. h - 1 : \E x \in 0 .. w - 1 :
                         FluidDropletAt(mm, y, x) = {} /\ mm.surface[y][x] > 0
         IN  [panic |-> FALSE,
              frame |-> [y \in 0 .. h - 1 |-> [x \in 0 .. w - 1 |->
                            GetFluidChar(mm, y, x, sd, y * w + x)]],
              seed |-> IF draws THEN sd + h * w ELSE sd]

\* ------------------------------------------------------------ game of life
\* speed is a time.Duration in nanoseconds; grid is nil until the first
\* resize, reset or pattern key.
DeadCell == [alive |-> FALSE, age |-> 0]

LifeInitialModel ==
    [width |-> 80, height |-> 24, grid |-> MakeGrid(0, 0, DeadCell), generation |-> 0,
     speed |-> 200000000, paused |-> FALSE, pattern |-> "random"]


\* An initGrid with rows and columns swapped.
LifeInitGridSwapped(mm) ==
    [mm EXCEPT !.grid = MakeGrid(mm.width, mm.height, DeadCell), !.generation = 0]

LifeInitGrid(mm) ==
    [mm EXCEPT !.grid = MakeGrid(mm.height, mm.width, DeadCell), !.generation = 0]

\* The cells a seeding function sets alive, as <<x, y>> pairs, from the
\* pattern tables of the source.
GliderCells ==
    {<<i * 20 + 5 + p[1], i * 8 + 5 + p[2]>> :
        i \in 0 .. 2, p \in {<<1, 0>>, <<2, 1>>, <<0, 2>>, <<1, 2>>, <<2, 2>>}}
SpaceshipCells(mm) ==
    {<<10 + p[1], Quot(mm.height, 2) + p[2]>> :
        p \in {<<1, 0>>, <<4, 0>>, <<0, 1>>, <<0, 2>>, <<4, 2>>, <<0, 3>>, <<1, 3>>,
               <<2, 3>>, <<3, 3>>}}
GosperCells ==
    {<<1, 5>>, <<1, 6>>, <<2, 5>>, <<2, 6>>,
     <<11, 5>>, <<11, 6>>, <<11, 7>>, <<12, 4>>, <<12, 8>>, <<13, 3>>, <<13, 9>>,
     <<14, 3>>, <<14, 9>>, <<15, 6>>, <<16, 4>>, <<16, 8>>, <<17, 5>>, <<17, 6>>,
     <<17, 7>>, <<18, 6>>,
     <<21, 3>>, <<21, 4>>, <<21, 5>>, <<22, 3>>, <<22, 4>>, <<22, 5>>, <<23, 2>>,
     <<23, 6>>, <<25, 1>>, <<25, 2>>, <<25, 6>>, <<25, 7>>,
     <<35, 3>>, <<35, 4>>, <<36, 3>>, <<36, 4>>}

\* seedOscillator: the cells it writes (after its own guards), in-range or
\* not.  The blinker is guarded on x only, the toad's first row on x and
\* offsetY >= 0, its second row on x and offsetY + 1 < height, the beacon on
\* all four bounds.
OscillatorWrites(mm) ==
    LET centerX == Quot(mm.width, 2)
        centerY == Quot(mm.height, 2)
        xok(x) == x >= 0 /\ x < mm.width
        blinker == {<<centerX + i, centerY>> : i \in {j \in -1 .. 1 : xok(centerX + j)}}
        toadY == centerY - 5
        toad1 == {<<centerX + i, toadY>> :
                    i \in {j \in 0 .. 2 : xok(centerX + j) /\ toadY >= 0}}
        toad2 == {<<centerX + i - 1, toadY + 1>> :
                    i \in {j \in 0 .. 2 : xok(centerX + j - 1) /\ toadY + 1 < mm.height}}
        beaconY == centerY + 5
        beacon == {c \in {<<centerX + p[1] - 2, beaconY + p[2]>> :
                            p \in {<<0, 0>>, <<1, 0>>, <<0, 1>>, <<3, 2>>, <<2, 3>>,
                                   <<3, 3>>}} :
                     xok(c[1]) /\ c[2] >= 0 /\ c[2] < mm.height}
    IN  blinker \cup toad1 \cup toad2 \cup beacon

InBoard(mm, c) == c[1] >= 0 /\ c[1] < mm.width /\ c[2] >= 0 /\ c[2] < mm.height

SetAlive(mm, cells) ==
    [mm EXCEPT !.grid = [y \in DOMAIN mm.grid |-> [x \in DOMAIN mm.grid[y] |->
                            IF <<x, y>> \in cells
                            THEN [mm.grid[y][x] EXCEPT !.alive = TRUE]
                            ELSE mm.grid[y][x]]]]

\* seedRandom: one draw per cell, row by row.
SeedRandom(mm, sd) ==
    [m |-> SetAlive(mm, {<<x, y>> \in (0 .. mm.width - 1) \X (0 .. mm.height - 1) :
                            RandFloat(sd, y * mm.width + x) < 300}),
     seed |-> sd + mm.height * mm.width, panic |-> FALSE]

\* seedPattern on a freshly allocated grid.  A write outside the grid is an
\* index-out-of-range panic.
SeedPattern(mm, sd) ==
    LET Place(cells) == [m |-> SetAlive(mm, cells), seed |-> sd, panic |-> FALSE]
        upper(c) == c[1] < mm.width /\ c[2] < mm.height
    IN  CASE mm.pattern = "random" -> SeedRandom(mm, sd)
          [] mm.pattern = "glider" -> Place({c \in GliderCells : upper(c)})
          [] mm.pattern = "oscillator" ->
                IF \A c \in OscillatorWrites(mm) : InBoard(mm, c)
                THEN Place(OscillatorWrites(mm))
                ELSE [m |-> mm, seed |-> sd, panic |-> TRUE]
          [] mm.pattern = "spaceship" -> Place({c \in SpaceshipCells(mm) : upper(c)})
          [] mm.pattern = "gosper" ->
                IF mm.width < 40 \/ mm.height < 15 THEN SeedRandom(mm, sd)
                ELSE Place({c \in GosperCells : upper(c)})
          [] OTHER -> Place({})

Seeded(seeded, old, sd) ==
    IF seeded.panic THEN Panicked(old, sd, "index") ELSE RetOf(seeded, "none")

\* initGrid followed by seedPattern, as resize, reset and the pattern keys do.
Reseed(mm, old, sd) ==
    IF MakePanics(mm.height, mm.width) THEN Panicked(old, sd, "make")
    ELSE Seeded(SeedPattern(LifeInitGrid(mm), sd), old, sd)

\* A countNeighbors that does not skip the cell itself.
CountNeighborsWithSelf(mm, x, y) ==
    Cardinality({d \in (-1 .. 1) \X (-1 .. 1) :
                    /\ InBoard(mm, <<x + d[1], y + d[2]>>)
                    /\ mm.grid[y + d[2]][x + d[1]].alive})

\* countNeighbors: the live cells among the eight around (x, y) that lie in
\* the board.
CountNeighbors(mm, x, y) ==
    Cardinality({d \in (-1 .. 1) \X (-1 .. 1) :
                    /\ d # <<0, 0>>
                    /\ InBoard(mm, <<x + d[1], y + d[2]>>)
                    /\ mm.grid[y + d[2]][x + d[1]].alive})

NextGeneration(mm) ==
    IF Size(mm.grid) = 0 THEN mm
    ELSE [mm EXCEPT
            !.grid = [y \in 0 .. mm.height - 1 |-> [x \in 0 .. mm.width - 1 |->
                        LET neighbors == CountNeighbors(mm, x, y)
                            currentCell == mm.grid[y][x]
                        IN  IF currentCell.alive
                            THEN IF neighbors = 2 \/ neighbors = 3
                                 THEN [alive |-> TRUE, age |-> currentCell.age + 1]
                                 ELSE DeadCell
                            ELSE IF neighbors = 3 THEN [alive |-> TRUE, age |-> 0]
                                 ELSE DeadCell]],
            !.generation = @ + 1]

\* A tick handler that returns no command while paused.
LifeTickStallsWhenPaused(mm, sd) ==
    IF ~mm.paused THEN Ret(NextGeneration(mm), "tick", sd) ELSE Ret(mm, "none", sd)

\* The tick handler: the next generation unless paused, and the next tick
\* either way.
LifeTick(mm, sd) == Ret(IF ~mm.paused THEN NextGeneration(mm) ELSE mm, "tick", sd)

\* The pattern each number key selects.
PatternKeys ==
    [k \in {"1", "2", "3", "4", "5"} |->
        CASE k = "1" -> "random" [] k = "2" -> "glider" [] k = "3" -> "oscillator"
          [] k = "4" -> "spaceship" [] OTHER -> "gosper"]

LifeUpdate(mm, msg, sd) ==
    CASE msg.type = "resize" ->
            Reseed([mm EXCEPT !.width = msg.w, !.height = msg.h - 4], mm, sd)
      [] msg.type = "tick" -> LifeTick(mm, sd)
      [] OTHER ->
            CASE msg.key \in {"q", "ctrl+c"} -> Ret(mm, "quit", sd)
              [] msg.key = "space" -> Ret([mm EXCEPT !.paused = ~@], "none", sd)
              [] msg.key = "r" -> Reseed(mm, mm, sd)
              [] msg.key \in DOMAIN PatternKeys ->
                    Reseed([mm EXCEPT !.pattern = PatternKeys[msg.key]], mm, sd)
              [] msg.key = "up" ->
                    Ret([mm EXCEPT !.speed =
                            Max((@ \div 5) * 4 + ((@ % 5) * 4) \div 5, 50000000)],
                        "none", sd)
              [] msg.key = "down" ->
                    Ret([mm EXCEPT !.speed =
                            Min((@ \div 5) * 6 + ((@ % 5) * 6) \div 5, 1000000000)],
                        "none", sd)
              [] OTHER -> Ret(mm, "none", sd)

\* --------------------------------------------------------- particle system
\* This demo has no paused flag; space toggles emitting.
ParticlesInitialModel ==
    [width |-> 80, height |-> 24, particles |-> <<>>, emitting |-> TRUE,
     gravity |-> 100, wind |-> 0]

\* emitParticle: four draws (vx, vy, glyph, color); k is the first.
EmitParticle(mm, sd, k) ==
    [x |-> Quot(F(mm.width), 2), y |-> F(mm.height) - 5000,
     vx |-> (RandFloat(sd, k) - 500) * 3,
     vy |-> -RandFloat(sd, k + 1) * 2 - 1000,
     life |-> 1000, char |-> RandIntn(sd, k + 2, 8), color |-> RandIntn(sd, k + 3, 4)]

\* The loop body with a decay of 0.025.
MoveParticleFaster(p, mm) ==
    LET vy1 == p.vy + mm.gravity
        vx1 == p.vx + mm.wind
    IN  [p EXCEPT !.vy = vy1, !.vx = vx1, !.x = @ + vx1, !.y = @ + vy1,
                  !.life = @ - 25]

\* The tick handler's loop body for one particle.
MoveParticle(p, mm) ==
    LET vy1 == p.vy + mm.gravity
        vx1 == p.vx + mm.wind
    IN  [p EXCEPT !.vy = vy1, !.vx = vx1, !.x = @ + vx1, !.y = @ + vy1,
                  !.life = @ - 20]

ParticlesUpdate(mm, msg, sd) ==
    CASE msg.type = "resize" ->
            Ret([mm EXCEPT !.width = msg.w, !.height = msg.h], "none", sd)
      [] msg.type = "tick" ->
            LET emits == mm.emitting /\ Len(mm.particles) < 100
                all == IF emits
                       THEN mm.particles \o [i \in 1 .. 3 |->
                                                EmitParticle(mm, sd, 4 * (i - 1))]
                       ELSE mm.particles
                moved == [i \in DOMAIN all |-> MoveParticle(all[i], mm)]
                alive == SelectSeq(moved, LAMBDA p :
                            p.life > 0 /\ p.y < F(mm.height) /\ p.x >= 0
                            /\ p.x < F(mm.width))
            IN  Ret([mm EXCEPT !.particles = alive], "tick",
                    IF emits THEN sd + 12 ELSE sd)
      [] OTHER ->
            CASE msg.key \in {"q", "ctrl+c"} -> Ret(mm, "quit", sd)
              [] msg.key = "space" -> Ret([mm EXCEPT !.emitting = ~@], "none", sd)
              [] msg.key = "g" -> Ret([mm EXCEPT !.gravity = -@], "none", sd)
              [] msg.key = "left" -> Ret([mm EXCEPT !.wind = @ - 50], "none", sd)
              [] msg.key = "right" -> Ret([mm EXCEPT !.wind = @ + 50], "none", sd)
              [] msg.key = "r" ->
                    Ret([mm EXCEPT !.particles = <<>>, !.gravity = 100, !.wind = 0],
                        "none", sd)
              [] OTHER -> Ret(mm, "none", sd)

\* View allocates make([][]string, m.height-3) with rows of m.width cells.
ParticlesView(mm, sd) == NoFrame(MakePanics(mm.height - 3, mm.width), sd)

\* ------------------------------------------------------------- matrix rain
\* This demo has no paused flag.  A rune of the rain is its index in the
\* character table.
\* len(chars), the rain's character table
RainChars == 55

MatrixInitialModel == [width |-> 80, height |-> 24, columns |-> <<>>, tick |-> 0]

\* initColumns panics when a column is built with rand.Intn(m.height/2) of a
\* non-positive bound (make of a negative width panics before it).
InitColumnsPanics(mm) == mm.width > 0 /\ Quot(mm.height, 2) <= 0

\* initColumns: each column draws its length, start position and speed and
\* then one rune per row, 3 + height draws in all.
InitColumns(mm, sd) ==
    LET per == 3 + mm.height
    IN  [m |-> [mm EXCEPT !.columns = [i \in 1 .. mm.width |->
                    LET k == (i - 1) * per
                    IN  [length |-> RandIntn(sd, k, Quot(mm.height, 2)) + 5,
                         position |-> -RandIntn(sd, k + 1, mm.height),
                         speed |-> RandIntn(sd, k + 2, 3) + 1,
                         chars |-> [j \in 0 .. mm.height - 1 |->
                                       RandIntn(sd, k + 3 + j, RainChars)]]]],
         seed |-> sd + mm.width * per]

\* The tick handler's loop body for one column, which draws at offsets
\* k .. k+5: a new position, speed and length when the column wraps, then
\* whether a rune changes, which one and to what.
RainColumn(col, mm, t, sd, k) ==
    IF t % col.speed # 0 THEN col
    ELSE LET pos1 == col.position + 1
             wrap == pos1 - col.length > mm.height
             c1 == IF wrap
                   THEN [col EXCEPT !.position = -RandIntn(sd, k, mm.height),
                                    !.speed = RandIntn(sd, k + 1, 3) + 1,
                                    !.length = RandIntn(sd, k + 2, Quot(mm.height, 2)) + 5]
                   ELSE [col EXCEPT !.position = pos1]
         IN  IF RandFloat(sd, k + 3) < 100
             THEN [c1 EXCEPT !.chars[RandIntn(sd, k + 4, mm.height)] =
                                RandIntn(sd, k + 5, RainChars)]
             ELSE c1

MatrixReset(mm, old, sd) ==
    IF mm.width < 0 THEN Panicked(old, sd, "make")
    ELSE IF InitColumnsPanics(mm) THEN Panicked(old, sd, "intn")
    ELSE LET made == InitColumns(mm, sd) IN Ret(made.m, "none", made.seed)

MatrixUpdate(mm, msg, sd) ==
    CASE msg.type = "resize" ->
            MatrixReset([mm EXCEPT !.width = msg.w, !.height = msg.h], mm, sd)
      [] msg.type = "tick" ->
            LET t == mm.tick + 1
            IN  Ret([mm EXCEPT !.tick = t,
                               !.columns = [i \in DOMAIN mm.columns |->
                                    RainColumn(mm.columns[i], mm, t, sd, 6 * (i - 1))]],
                    "tick", sd + 6 * Len(mm.columns))
      [] OTHER ->
            CASE msg.key \in {"q", "ctrl+c"} -> Ret(mm, "quit", sd)
              [] msg.key = "r" -> MatrixReset(mm, mm, sd)
              [] OTHER -> Ret(mm, "none", sd)

\* View returns early for a zero width or height; otherwise it allocates
\* make([][]string, m.height) with rows of m.width cells.
MatrixView(mm, sd) ==
    NoFrame(mm.width # 0 /\ mm.height # 0 /\ MakePanics(mm.height, mm.width), sd)

\* --------------------------------------------------------------- starfield
\* len(m.stars)
NumStars == 200

\* float64 results that are not finite: a star whose z is exactly 0 divides
\* by zero when it is projected.
PosInf == 2 * 1000000000
NaN == PosInf + 1

\* a * c for a large a (a projected coordinate) without leaving 32 bits.
MulWide(a, c) == a * Quot(c, S) + Quot(a * Rem(c, S), S)

\* coord / z * center + center
Project(coord, z, center) ==
    IF z = 0
    THEN IF coord = 0 \/ center = 0 THEN NaN
         ELSE IF (coord > 0) = (center > 0) THEN PosInf ELSE -PosInf
    ELSE MulWide(Div(coord, z), center) + center

\* initStars: three draws per star.
InitStars(mm, sd) ==
    [m |-> [mm EXCEPT !.stars = [i \in 1 .. NumStars |->
                [x |-> (RandFloat(sd, 3 * (i - 1)) - 500) * 2,
                 y |-> (RandFloat(sd, 3 * (i - 1) + 1) - 500) * 2,
                 z |-> RandFloat(sd, 3 * (i - 1) + 2),
                 prevX |-> 0, prevY |-> 0]]],
     seed |-> sd + 3 * NumStars]

StarfieldInitialModel(sd) ==
    InitStars([width |-> 80, height |-> 24, stars |-> <<>>, speed |-> 50,
               centerX |-> Quot(F(80), 2), centerY |-> Quot(F(24), 2),
               paused |-> FALSE], sd)

\* The tick handler's loop: star i is redrawn, with the draws at offsets
\* 2(i-1) and 2(i-1)+1, when it reaches z <= 0.
MoveStars(mm, sd) ==
    LET resets(i) == mm.stars[i].z - mm.speed <= 0
        before(i) == 2 * (i - 1)
    IN  [m |-> [mm EXCEPT !.stars = [i \in DOMAIN mm.stars |->
                    LET star == mm.stars[i]
                        px == Project(star.x, star.z, mm.centerX)
                        py == Project(star.y, star.z, mm.centerY)
                    IN  IF resets(i)
                        THEN [x |-> (RandFloat(sd, before(i)) - 500) * 2,
                              y |-> (RandFloat(sd, before(i) + 1) - 500) * 2,
                              z |-> 1000, prevX |-> px, prevY |-> py]
                        ELSE [star EXCEPT !.prevX = px, !.prevY = py,
                                          !.z = @ - mm.speed]]],
         seed |-> IF \E i \in DOMAIN mm.stars : resets(i) THEN sd + 2 * NumStars
                  ELSE sd]

StarfieldUpdate(mm, msg, sd) ==
    CASE msg.type = "resize" ->
            Ret([mm EXCEPT !.width = msg.w, !.height = msg.h - 4,
                           !.centerX = Quot(F(msg.w), 2),
                           !.centerY = Quot(F(msg.h - 4), 2)], "none", sd)
      [] msg.type = "tick" ->
            IF ~mm.paused
            THEN LET moved == MoveStars(mm, sd) IN Ret(moved.m, "tick", moved.seed)
            ELSE Ret(mm, "tick", sd)
      [] OTHER ->
            CASE msg.key \in {"q", "ctrl+c"} -> Ret(mm, "quit", sd)
              [] msg.key = "space" -> Ret([mm EXCEPT !.paused = ~@], "none", sd)
              [] msg.key = "r" ->
                    LET made == InitStars(mm, sd) IN Ret(made.m, "none", made.seed)
              [] msg.key = "up" -> Ret([mm EXCEPT !.speed = Min(@ + 10, 200)], "none", sd)
              [] msg.key = "down" -> Ret([mm EXCEPT !.speed = Max(@ - 10, 10)], "none", sd)
              [] msg.key \in {"+", "="} ->
                    Ret([mm EXCEPT !.speed = Min(@ + 20, 300)], "none", sd)
              [] msg.key = "-" -> Ret([mm EXCEPT !.speed = Max(@ - 20, 5)], "none", sd)
              [] OTHER -> Ret(mm, "none", sd)

\* -------------------------------------------------------- audio visualizer
ZeroBar == [height |-> 0, target |-> 0, peak |-> 0, peakTime |-> 0]

AudioInitialModel ==
    [width |-> 80, height |-> 24, bars |-> [i \in 1 .. 64 |-> ZeroBar], time |-> 0,
     paused |-> FALSE, beatTime |-> 0, intensity |-> 1000, mode |-> "music"]

\* The target of the bar at frequency freq, before the random term.
AudioTarget(mm, t, freq) ==
    CASE mm.mode = "music" ->
            LET bass == Mul(Sin(Mul(t, 500)), Exp(-freq * 2))
                mids == Mul(Sin(Mul(t, 1200) + Mul(freq, Pi)),
                            Exp(-Mul(freq - 300, freq - 300) * 10))
                treble == Mul(Sin(Mul(t, 2500) + Mul(freq, Pi) * 2),
                              Exp(-Mul(freq - 800, freq - 800) * 15))
            IN  Mul(bass + mids + treble, mm.intensity)
      [] mm.mode = "bass" ->
            Mul(Mul(Mul(Sin(Mul(t, 800)), Exp(-freq * 4)), mm.intensity), 1500)
      [] mm.mode = "electronic" ->
            IF Sin(t * 4) > 700
            THEN Mul(S - freq, mm.intensity)
            ELSE Mul(Mul(Mul(Sin(t * 3 + Mul(freq, Pi) * 4), S - freq), mm.intensity), 300)
      [] OTHER -> 0

\* The tick handler's loop body for bar i (0-based index idx), with the
\* idx-th draw of the tick.
SetBar(b, newTarget, height) ==
    IF height > b.peak
    THEN [height |-> height, target |-> newTarget, peak |-> height, peakTime |-> 0]
    ELSE [height |-> height, target |-> newTarget,
          peak |-> IF b.peakTime + 1 > 10 THEN Mul(b.peak, 950) ELSE b.peak,
          peakTime |-> b.peakTime + 1]
SmoothBar(b, newTarget) == SetBar(b, newTarget, b.height + Mul(newTarget - b.height, 300))
UpdateBar(b, mm, t, idx, n, sd) ==
    SmoothBar(b, Max(0, AudioTarget(mm, t, Div(F(idx), F(n)))
                        + Mul(Mul(RandFloat(sd, idx) - 500, 200), mm.intensity)))

AudioTick(mm, sd) ==
    LET t == mm.time + 100
        n == Len(mm.bars)
        beat == mm.beatTime + 1
        changes == beat % 30 = 0
    IN  [m |-> [mm EXCEPT !.time = t,
                          !.bars = [i \in 1 .. n |-> UpdateBar(mm.bars[i], mm, t, i - 1, n, sd)],
                          !.beatTime = beat,
                          !.intensity = IF changes THEN 500 + Mul(RandFloat(sd, n), 800)
                                        ELSE @],
         seed |-> sd + n + (IF changes THEN 1 ELSE 0)]

AudioUpdate(mm, msg, sd) ==
    CASE msg.type = "resize" ->
            LET numBars == Max(16, Min(128, Quot(msg.w, 2)))
            IN  Ret([mm EXCEPT !.width = msg.w, !.height = msg.h - 4,
                               !.bars = [i \in 1 .. numBars |->
                                            IF i <= Len(mm.bars) THEN mm.bars[i]
                                            ELSE ZeroBar]],
                    "none", sd)
      [] msg.type = "tick" ->
            IF ~mm.paused
            THEN RetOf(AudioTick(mm, sd), "tick")
            ELSE Ret(mm, "tick", sd)
      [] OTHER ->
            CASE msg.key \in {"q", "ctrl+c"} -> Ret(mm, "quit", sd)
              [] msg.key = "space" -> Ret([mm EXCEPT !.paused = ~@], "none", sd)
              [] msg.key = "r" ->
                    Ret([mm EXCEPT !.bars = [i \in DOMAIN mm.bars |-> ZeroBar], !.time = 0],
                        "none", sd)
              [] msg.key = "1" -> Ret([mm EXCEPT !.mode = "music"], "none", sd)
              [] msg.key = "2" -> Ret([mm EXCEPT !.mode = "bass"], "none", sd)
              [] msg.key = "3" -> Ret([mm EXCEPT !.mode = "electronic"], "none", sd)
              [] msg.key = "up" ->
                    Ret([mm EXCEPT !.intensity = Min(@ + 200, 2000)], "none", sd)
              [] msg.key = "down" ->
                    Ret([mm EXCEPT !.intensity = Max(@ - 200, 100)], "none", sd)
              [] OTHER -> Ret(mm, "none", sd)

\* -------------------------------------------------------------------- wave
\* This demo has no paused flag; space adds a wave.
WavesInitialModel ==
    [width |-> 80, height |-> 24, time |-> 0, showHelp |-> TRUE,
     waves |-> << [amplitude |-> 300, frequency |-> 50, phase |-> 0, speed |-> 50,
                   color |-> "Blue"],
                  [amplitude |-> 200, frequency |-> 80, phase |-> Pi \div 3, speed |-> 80,
                   color |-> "Cyan"],
                  [amplitude |-> 250, frequency |-> 30, phase |-> Pi \div 2, speed |-> 30,
                   color |-> "Purple"] >>]

\* len(common.GradientBlue)
GradientBlueLen == 7

WavesUpdate(mm, msg, sd) ==
    CASE msg.type = "resize" ->
            Ret([mm EXCEPT !.width = msg.w, !.height = msg.h], "none", sd)
      [] msg.type = "tick" -> Ret([mm EXCEPT !.time = @ + 50], "tick", sd)
      [] OTHER ->
            CASE msg.key \in {"q", "ctrl+c"} -> Ret(mm, "quit", sd)
              [] msg.key = "h" -> Ret([mm EXCEPT !.showHelp = ~@], "none", sd)
              [] msg.key = "r" -> Ret([mm EXCEPT !.time = 0], "none", sd)
              [] msg.key = "space" ->
                    Ret(IF Len(mm.waves) < 5
                        THEN [mm EXCEPT !.waves = Append(@,
                                [amplitude |-> 100 + Rem(mm.time, 300),
                                 frequency |-> 20 + Rem(mm.time, 80),
                                 phase |-> mm.time,
                                 speed |-> 20 + Rem(mm.time, 60),
                                 color |-> Rem(IntOf(mm.time), GradientBlueLen)])]
                        ELSE mm,
                        "none", sd)
              [] msg.key = "backspace" ->
                    Ret(IF Len(mm.waves) > 1
                        THEN [mm EXCEPT !.waves = SubSeq(@, 1, Len(@) - 1)] ELSE mm,
                        "none", sd)
              [] OTHER -> Ret(mm, "none", sd)

\* View allocates make([]string, m.height-4).
WavesView(mm, sd) == NoFrame(mm.height - 4 < 0, sd)

\* ---------------------------------------------------------------- spinners
\* len(frames) of the ten spinners
SpinnerFrames == <<10, 4, 4, 4, 4, 4, 6, 4, 10, 5>>

SpinnersInitialModel == [spinners |-> [i \in 1 .. 10 |-> [index |-> 0]], ticks |-> 0]

SpinnersUpdate(mm, msg, sd) ==
    CASE msg.type = "tick" ->
            LET t == mm.ticks + 1
            IN  Ret([mm EXCEPT !.ticks = t,
                               !.spinners = [i \in DOMAIN mm.spinners |->
                                    IF t % i = 0
                                    THEN [index |-> (mm.spinners[i].index + 1)
                                                    % SpinnerFrames[i]]
                                    ELSE mm.spinners[i]]],
                    "tick", sd)
      [] msg.type = "key" /\ msg.key \in {"q", "ctrl+c"} -> Ret(mm, "quit", sd)
      [] OTHER -> Ret(mm, "none", sd)


\* ---------------------------------------------------------------- textarea
\* The editor around the textarea component.  text is the component's value
\* (the keys typed so far); the component itself is library code and only
\* its value, its size and the two switches the program flips are kept.
TextareaInitialModel ==
    [mode |-> "edit", saved |-> FALSE, content |-> <<>>, text |-> <<>>,
     width |-> 60, height |-> 10, showLineNumbers |-> TRUE, insertNewline |-> TRUE]

TextareaUpdate(mm, msg, sd) ==
    CASE msg.type = "resize" ->
            Ret([mm EXCEPT !.width = msg.w - 10, !.height = msg.h - 10], "none", sd)
      [] msg.type = "key" /\ msg.key \in {"ctrl+c", "esc"} ->
            IF mm.mode = "preview"
            THEN Ret([mm EXCEPT !.mode = "edit"], "none", sd)
            ELSE Ret(mm, "quit", sd)
      [] msg.type = "key" /\ msg.key = "ctrl+s" ->
            Ret([mm EXCEPT !.saved = TRUE, !.content = mm.text], "none", sd)
      [] msg.type = "key" /\ msg.key = "ctrl+p" ->
            Ret(IF mm.mode = "edit"
                THEN [mm EXCEPT !.mode = "preview", !.content = mm.text]
                ELSE [mm EXCEPT !.mode = "edit"],
                "none", sd)
      [] msg.type = "key" /\ msg.key = "ctrl+r" ->
            Ret([mm EXCEPT !.text = <<>>, !.saved = FALSE, !.content = <<>>], "none", sd)
      [] msg.type = "key" /\ msg.key = "f1" ->
            Ret([mm EXCEPT !.showLineNumbers = ~@], "none", sd)
      [] msg.type = "key" /\ msg.key = "f2" ->
            Ret([mm EXCEPT !.insertNewline = ~@], "none", sd)
      [] OTHER ->
            \* the component takes the message, in edit mode only
            Ret(IF mm.mode = "edit" /\ msg.type = "key" /\ msg.key \in {"a", "q"}
                THEN [mm EXCEPT !.text = Append(@, msg.key)]
                ELSE mm,
                "none", sd)

\* ---------------------------------------------------------------- launcher
\* The command of every catalog entry, in list order; "" is a section
\* separator.
ShowcaseItems ==
    << "examples/01-wave-animation/main.go", "examples/02-particle-system/main.go",
       "examples/03-loading-spinners/main.go", "examples/04-progress-animations/main.go",
       "examples/05-matrix-rain/main.go", "examples/06-bouncing-ball/main.go",
       "examples/07-starfield/main.go", "examples/08-audio-visualizer/main.go",
       "",
       "examples/09-fire-effect/main.go", "examples/10-fluid-simulation/main.go",
       "examples/11-rotating-cube/main.go", "examples/12-game-of-life/main.go",
       "examples/13-mandelbrot-zoom/main.go",
       "",
       "demoscene/01-plasma/main.go", "demoscene/02-tunnel/main.go",
       "demoscene/03-metaballs/main.go", "demoscene/04-rotozoom/main.go",
       "demoscene/05-scroller/main.go", "demoscene/06-vaporwave/main.go",
       "",
       "bubbles/01-textinput/main.go", "bubbles/02-textarea/main.go",
       "bubbles/03-table/main.go", "bubbles/04-viewport/main.go",
       "bubbles/05-filepicker/main.go" >>

\* cursor is the list component's selected index (1-based here).
ShowcaseInitialModel == [cursor |-> 1, choice |-> "", width |-> 80, height |-> 20]

ShowcaseUpdate(mm, msg, sd) ==
    CASE msg.type = "resize" ->
            Ret([mm EXCEPT !.width = msg.w, !.height = msg.h - 4], "none", sd)
      [] msg.type = "key" /\ msg.key \in {"q", "ctrl+c"} -> Ret(mm, "quit", sd)
      [] msg.type = "key" /\ msg.key = "enter" ->
            IF ShowcaseItems[mm.cursor] # ""
            THEN Ret([mm EXCEPT !.choice = ShowcaseItems[mm.cursor]], "quit", sd)
            ELSE Ret(mm, "none", sd)
      [] msg.type = "key" /\ msg.key = "up" ->
            Ret([mm EXCEPT !.cursor = Max(1, @ - 1)], "none", sd)
      [] msg.type = "key" /\ msg.key = "down" ->
            Ret([mm EXCEPT !.cursor = Min(Len(ShowcaseItems), @ + 1)], "none", sd)
      [] OTHER -> Ret(mm, "none", sd)

\* ------------------------------------------------------ the cube's drawLine
\* sign
Sign(x) == IF x > 0 THEN 1 ELSE IF x < 0 THEN -1 ELSE 0

\* A guard that tests the column only.
OnScreenColumn(x, y, width, height) == x >= 0 /\ x < width

\* drawLine's guard on the cell it is about to write.
OnScreen(x, y, width, height) == x >= 0 /\ x < width /\ y >= 0 /\ y < height

\* One pass through drawLine's loop: l holds the endpoints, the current
\* point, err, the cells written so far and whether the loop has ended.
DrawLineBody(l, width, height) ==
    LET dx == Abs(l.x1 - l.x0)
        dy == Abs(l.y1 - l.y0)
        sx == Sign(l.x1 - l.x0)
        sy == Sign(l.y1 - l.y0)
        cells == IF OnScreen(l.x, l.y, width, height)
                 THEN l.cells \cup {<<l.x, l.y>>} ELSE l.cells
        e2 == 2 * l.err
        right == e2 > -dy
        down == e2 < dx
    IN  IF l.x = l.x1 /\ l.y = l.y1
        THEN [l EXCEPT !.cells = cells, !.done = TRUE]
        ELSE [l EXCEPT !.cells = cells,
                       !.err = @ - (IF right THEN dy ELSE 0) + (IF down THEN dx ELSE 0),
                       !.x = IF right THEN @ + sx ELSE @,
                       !.y = IF down THEN @ + sy ELSE @]

\* ---------------------------------------------------------------- the table
\* A row is held as its ID; generateSampleData makes rows 1001 .. 1025 with
\* five draws each.  cursor is the table component's 0-based cursor, which
\* the up and down keys move within the rows.
GenerateSampleData == [i \in 1 .. 25 |-> 1000 + i]

TableInitialModel(sd) ==
    [m |-> [rows |-> GenerateSampleData, cursor |-> 0, selected |-> <<>>,
            action |-> "", showDetails |-> FALSE, width |-> 80, height |-> 24,
            tableHeight |-> 15],
     seed |-> sd + 125]

TableUpdate(mm, msg, sd) ==
    CASE msg.type = "resize" ->
            Ret([mm EXCEPT !.width = msg.w, !.height = msg.h,
                           !.tableHeight = IF mm.showDetails THEN msg.h - 16
                                           ELSE msg.h - 8], "none", sd)
      [] OTHER ->
            CASE msg.key \in {"q", "ctrl+c"} -> Ret(mm, "quit", sd)
              [] msg.key = "enter" ->
                    Ret(IF Len(mm.rows) > 0
                        THEN [mm EXCEPT
                                !.selected = IF mm.cursor < Len(mm.rows)
                                             THEN <<mm.rows[mm.cursor + 1]>> ELSE <<>>,
                                !.showDetails = ~@,
                                !.action = "selected",
                                !.tableHeight = IF ~mm.showDetails THEN mm.height - 16
                                                ELSE mm.height - 8]
                        ELSE mm, "none", sd)
              [] msg.key = "d" ->
                    Ret(IF Len(mm.rows) > 0 /\ mm.cursor < Len(mm.rows)
                        THEN [mm EXCEPT
                                !.rows = SubSeq(@, 1, mm.cursor)
                                         \o SubSeq(@, mm.cursor + 2, Len(@)),
                                !.action = "deleted"]
                        ELSE mm, "none", sd)
              [] msg.key = "a" ->
                    Ret([mm EXCEPT !.rows = Append(@, 2000 + Len(@)),
                                   !.action = "added"], "none", sd)
              [] msg.key = "r" ->
                    Ret([mm EXCEPT !.rows = GenerateSampleData, !.action = "refreshed",
                                   !.showDetails = FALSE], "none", sd + 125)
              [] msg.key = "s" -> Ret([mm EXCEPT !.action = "sorted"], "none", sd)
              [] msg.key = "up" ->
                    Ret([mm EXCEPT !.cursor = Max(0, Min(Len(mm.rows) - 1, @ - 1))],
                        "none", sd)
              [] msg.key = "down" ->
                    Ret([mm EXCEPT !.cursor = Max(0, Min(Len(mm.rows) - 1, @ + 1))],
                        "none", sd)
              [] OTHER -> Ret(mm, "none", sd)

\* View's test for the details panel.  View has a value receiver: the
\* m.showDetails = false in its case "deleted" changes View's copy only.
TableShowsDetails(mm) ==
    (IF mm.action = "deleted" THEN FALSE ELSE mm.showDetails) /\ Len(mm.selected) > 0

TableView(mm, sd) ==
    [panic |-> FALSE,
     frame |-> IF TableShowsDetails(mm) THEN <<"table", "details">> ELSE <<"table">>,
     seed |-> sd]

\* ---------------------------------------------------------- the file picker
\* The picker lists the current directory, here one file of a type that is
\* not allowed and one that is; enter selects the file under the cursor.
\* err and selectedFile are "" when unset.
PickerFiles == <<"logo.png", "main.go">>
PickerAllowed == {"main.go"}

FilePickerInitialModel ==
    [cursor |-> 0, showHidden |-> FALSE, pickerHeight |-> 0, selectedFile |-> "",
     quitting |-> FALSE, err |-> ""]

FilePickerUpdate(mm, msg, sd) ==
    CASE msg.type = "resize" -> Ret([mm EXCEPT !.pickerHeight = msg.h - 8], "none", sd)
      [] OTHER ->
            CASE msg.key \in {"q", "ctrl+c"} ->
                    Ret([mm EXCEPT !.quitting = TRUE], "quit", sd)
              [] msg.key = "h" -> Ret([mm EXCEPT !.showHidden = ~@], "none", sd)
              [] msg.key = "r" -> Ret(mm, "none", sd)
              [] msg.key = "up" ->
                    Ret([mm EXCEPT !.cursor = Max(0, @ - 1)], "none", sd)
              [] msg.key = "down" ->
                    Ret([mm EXCEPT !.cursor = Min(Len(PickerFiles) - 1, @ + 1)],
                        "none", sd)
              [] msg.key = "enter" ->
                    Ret(IF PickerFiles[mm.cursor + 1] \in PickerAllowed
                        THEN [mm EXCEPT !.selectedFile = PickerFiles[mm.cursor + 1]]
                        ELSE [mm EXCEPT !.err = "file type not allowed: .png"],
                        "none", sd)
              [] OTHER -> Ret(mm, "none", sd)

\* View's footer.  View has a value receiver: the m.err = nil and the
\* m.selectedFile = "" after drawing change View's copy only.
FilePickerView(mm, sd) ==
    [panic |-> FALSE,
     frame |-> IF mm.quitting THEN <<>>
               ELSE IF mm.err # "" THEN <<"error">>
               ELSE IF mm.selectedFile # "" THEN <<"selected">>
               ELSE <<"picker">>,
     seed |-> sd]
\* ------------------------------------------------------------------- views
\* renderPlasma, renderTunnel, renderMetaballs, renderRotozoom,
\* renderMandelbrot and the audio View allocate make([]string, m.height).
LinesView(mm, sd) == NoFrame(mm.height < 0, sd)

\* renderScroller, render3D and the bouncing-ball and starfield Views
\* allocate m.height rows of m.width cells.
CellsView(mm, sd) == NoFrame(MakePanics(mm.height, mm.width), sd)

\* renderBar / renderClassic: filled = int(progress * width) glyphs, then
\* strings.Repeat("U+2591", m.width-filled); a negative count panics.  The
\* classic bar is the first one drawn.
ProgressView(mm, sd) ==
    LET filled == IntOf(Mul(mm.bars[1].progress, F(mm.width)))
    IN  NoFrame(filled < 0 \/ mm.width - filled < 0, sd)

\* ----------------------------------------------------------- glyph mappers
\* getPlasmaChar: the index into its 12-glyph table.
PlasmaChars == 12
GetPlasmaCharIndex(value) ==
    LET charIndex == IntOf(value * (PlasmaChars - 1))
    IN  IF charIndex >= PlasmaChars THEN PlasmaChars - 1 ELSE charIndex

\* getMetaballChar: the index into its 10-glyph table.
MetaballChars == 10
GetMetaballCharIndex(strength, threshold) ==
    LET normalizedStrength == Min(S, Div(strength - threshold, threshold * 2))
        charIndex == IntOf(normalizedStrength * (MetaballChars - 1))
    IN  IF charIndex >= MetaballChars THEN MetaballChars - 1 ELSE charIndex

\* common.GetWaveChar: the index into its 8-glyph table.
WaveChars == 8
GetWaveCharIndex(height) == IntOf(Clamp(height * WaveChars, 0, F(WaveChars - 1)))

\* getColorFromIntensity, getSkyColor, getSunColor and getGridColor: the index
\* into the current mode's colour table of n entries.
GetColorFromIntensityIndex(intensity, n) ==
    IntOf(Clamp(intensity * (n - 1), 0, F(n - 1)))

\* ------------------------------------------------------------ the programs
\* The demos with a paused flag.
PausedPrograms ==
    {"plasma", "tunnel", "metaballs", "scroller", "gridscroller", "vaporwave",
     "gridvaporwave", "rotozoom", "fire", "fluid", "life", "ball", "starfield", "cube",
     "mandelbrot", "audio", "progress"}

Programs == PausedPrograms \cup {"particles", "matrix", "waves", "spinners"}

\* The demos that call math/rand.
RandomPrograms ==
    {"gridvaporwave", "fire", "fluid", "life", "starfield", "audio", "particles", "matrix"}

\* main: the model handed to tea.NewProgram, and the generator state after
\* building it.
InitialModel(p, sd) ==
    CASE p = "plasma" -> [m |-> PlasmaInitialModel, seed |-> sd]
      [] p = "tunnel" -> [m |-> TunnelInitialModel, seed |-> sd]
      [] p = "metaballs" -> [m |-> MetaballsInitialModel, seed |-> sd]
      [] p = "scroller" -> [m |-> ScrollerInitialModel, seed |-> sd]
      [] p = "gridscroller" -> [m |-> GridScrollerInitialModel, seed |-> sd]
      [] p = "vaporwave" -> [m |-> VaporInitialModel, seed |-> sd]
      [] p = "gridvaporwave" -> GridVaporInitialModel(sd)
      [] p = "rotozoom" -> [m |-> RotozoomInitialModel, seed |-> sd]
      [] p = "fire" -> [m |-> FireInitialModel, seed |-> sd]
      [] p = "fluid" -> [m |-> FluidInitialModel, seed |-> sd]
      [] p = "life" -> [m |-> LifeInitialModel, seed |-> sd]
      [] p = "ball" -> [m |-> BallInitialModel, seed |-> sd]
      [] p = "starfield" -> StarfieldInitialModel(sd)
      [] p = "cube" -> [m |-> CubeInitialModel, seed |-> sd]
      [] p = "mandelbrot" -> [m |-> MandelbrotInitialModel, seed |-> sd]
      [] p = "audio" -> [m |-> AudioInitialModel, seed |-> sd]
      [] p = "progress" -> [m |-> ProgressInitialModel, seed |-> sd]
      [] p = "particles" -> [m |-> ParticlesInitialModel, seed |-> sd]
      [] p = "matrix" -> [m |-> MatrixInitialModel, seed |-> sd]
      [] p = "waves" -> [m |-> WavesInitialModel, seed |-> sd]
      [] p = "spinners" -> [m |-> SpinnersInitialModel, seed |-> sd]
      [] p = "textarea" -> [m |-> TextareaInitialModel, seed |-> sd]
      [] p = "showcase" -> [m |-> ShowcaseInitialModel, seed |-> sd]
      [] p = "table" -> TableInitialModel(sd)
      [] p = "filepicker" -> [m |-> FilePickerInitialModel, seed |-> sd]

\* The program's Update method.
Update(p, mm, msg, sd) ==
    CASE p = "plasma" -> PlasmaUpdate(mm, msg, sd)
      [] p = "tunnel" -> TunnelUpdate(mm, msg, sd)
      [] p = "metaballs" -> MetaballsUpdate(mm, msg, sd)
      [] p = "scroller" -> ScrollerUpdate(mm, msg, sd)
      [] p = "gridscroller" -> GridScrollerUpdate(mm, msg, sd)
      [] p = "vaporwave" -> VaporUpdate(mm, msg, sd)
      [] p = "gridvaporwave" -> GridVaporUpdate(mm, msg, sd)
      [] p = "rotozoom" -> RotozoomUpdate(mm, msg, sd)
      [] p = "fire" -> FireUpdate(mm, msg, sd)
      [] p = "fluid" -> FluidUpdate(mm, msg, sd)
      [] p = "life" -> LifeUpdate(mm, msg, sd)
      [] p = "ball" -> BallUpdate(mm, msg, sd)
      [] p = "starfield" -> StarfieldUpdate(mm, msg, sd)
      [] p = "cube" -> CubeUpdate(mm, msg, sd)
      [] p = "mandelbrot" -> MandelbrotUpdate(mm, msg, sd)
      [] p = "audio" -> AudioUpdate(mm, msg, sd)
      [] p = "progress" -> ProgressUpdate(mm, msg, sd)
      [] p = "particles" -> ParticlesUpdate(mm, msg, sd)
      [] p = "matrix" -> MatrixUpdate(mm, msg, sd)
      [] p = "waves" -> WavesUpdate(mm, msg, sd)
      [] p = "spinners" -> SpinnersUpdate(mm, msg, sd)
      [] p = "textarea" -> TextareaUpdate(mm, msg, sd)
      [] p = "showcase" -> ShowcaseUpdate(mm, msg, sd)
      [] p = "table" -> TableUpdate(mm, msg, sd)
      [] p = "filepicker" -> FilePickerUpdate(mm, msg, sd)

\* The program's View method.  The line-rendered vaporwave and the two
\* grid-rendered demos return a "terminal too small" text below their
\* minimum size and allocate nothing of negative size above it (the grid
\* renderers draw into m.grid, which every View clears first; what it holds
\* between a View and the next message is not modelled); the game of life
\* and the spinners build their text without allocating by size, and the
\* editor and the launcher leave the drawing to their component.  The frame
\* of the table and of the file picker names the parts View draws.
View(p, mm, sd) ==
    CASE p \in {"plasma", "tunnel", "metaballs", "rotozoom", "mandelbrot", "audio"} ->
            LinesView(mm, sd)
      [] p \in {"scroller", "cube", "ball", "starfield"} -> CellsView(mm, sd)
      [] p \in {"vaporwave", "gridscroller", "gridvaporwave", "life", "spinners",
                 "textarea", "showcase"} ->
            NoFrame(FALSE, sd)
      [] p = "fire" -> FireView(mm, sd)
      [] p = "fluid" -> FluidView(mm, sd)
      [] p = "progress" -> ProgressView(mm, sd)
      [] p = "particles" -> ParticlesView(mm, sd)
      [] p = "matrix" -> MatrixView(mm, sd)
      [] p = "waves" -> WavesView(mm, sd)
      [] p = "table" -> TableView(mm, sd)
      [] p = "filepicker" -> FilePickerView(mm, sd)

\* The keys the model presses: the two quit keys, one key no demo handles
\* and the keys the program's Update has a case for.
Keys(p) ==
    {"q", "ctrl+c", "f1"} \cup
    CASE p = "plasma" -> {"space", "r", "1", "2", "3", "4", "up", "down", "left", "right"}
      [] p \in {"tunnel", "vaporwave"} -> {"space", "r", "1", "2", "3", "4", "up", "down"}
      [] p = "metaballs" -> {"space", "r", "1", "2", "3", "4", "up", "down", "a", "d"}
      [] p \in {"scroller", "gridscroller"} ->
            {"space", "r", "1", "2", "3", "4", "5", "6", "7", "up", "down", "left", "right"}
      [] p = "gridvaporwave" ->
            {"space", "r", "1", "2", "3", "4", "s", "f", "p", "up", "down", "left", "right"}
      [] p = "rotozoom" -> {"space", "r", "1", "2", "3", "4", "5"}
      [] p = "fire" -> {"space", "r", "up", "down", "left", "right", "0"}
      [] p = "fluid" -> {"space", "r", "1", "2", "3", "up", "down", "left", "right", "c"}
      [] p = "life" -> {"space", "r", "1", "2", "3", "4", "5", "up", "down"}
      [] p = "ball" -> {"space", "r", "g", "up", "left", "right", "a"}
      [] p = "starfield" -> {"space", "r", "up", "down", "+", "=", "-"}
      [] p = "cube" ->
            {"space", "a", "r", "up", "down", "left", "right", "+", "=", "-", "z", "x",
             "p", "o"}
      [] p = "mandelbrot" ->
            {"space", "a", "r", "up", "down", "left", "right", "+", "=", "-", "1", "2",
             "3", "4", "i", "d"}
      [] p = "audio" -> {"space", "r", "1", "2", "3", "up", "down"}
      [] p = "progress" -> {"space", "r"}
      [] p = "particles" -> {"space", "g", "left", "right", "r"}
      [] p = "matrix" -> {"r"}
      [] p = "waves" -> {"h", "r", "space", "backspace"}
      [] p = "spinners" -> {}
      [] p = "textarea" -> {"esc", "ctrl+s", "ctrl+p", "ctrl+r", "f2", "a"}
      [] p = "showcase" -> {"enter", "up", "down"}
      [] p = "table" -> {"enter", "d", "a", "s", "r", "up", "down"}
      [] p = "filepicker" -> {"enter", "up", "down", "h", "r"}

\* The terminal sizes (columns, rows) the model resizes to.
Sizes == {<<2, 2>>, <<3, 12>>, <<22, 5>>}

\* --------------------------------------------------------- the event loop
\* main builds initialModel() and runs it; Init returns the first tick
\* command (the editor, the launcher, the table and the file picker have no
\* tick).  rand.Seed picks the
\* generator's start value.
Init ==
    /\ prog \in Programs \cup {"textarea", "showcase", "table", "filepicker"}
    /\ \E sd \in 0 .. MaxSeed :
          /\ (prog \notin RandomPrograms => sd = 0)
          /\ m = InitialModel(prog, sd).m
          /\ seed = InitialModel(prog, sd).seed
    /\ status = "running"
    /\ fault = ""
    /\ cmd = (IF prog \in Programs THEN "tick" ELSE "none")
    /\ pending = (IF prog \in Programs THEN 1 ELSE 0)
    /\ last = NoMsg
    /\ frame = <<>>
    /\ steps = 0
    /\ renders = 0
    /\ proc = [phase |-> "run", code |-> 0, stdout |-> "", stderr |-> "", child |-> ""]

\* The runtime hands msg to Update and runs the command it returns; ticks
\* is the number of tick messages the delivery takes out of flight.
Returned(r, ticks) ==
    /\ m' = r.m
    /\ seed' = r.seed
    /\ cmd' = r.cmd
    /\ fault' = r.why
    /\ status' = IF r.panic THEN "panic"
                 ELSE IF r.cmd = "quit" THEN "quit" ELSE "running"
    /\ pending' = pending - ticks + (IF r.cmd = "tick" THEN 1 ELSE 0)

Handle(msg, ticks) ==
    /\ Returned(Update(prog, m, msg, seed), ticks)
    /\ last' = msg
    /\ steps' = steps + 1
    /\ renders' = 0
    /\ UNCHANGED <<prog, frame, proc>>

Deliver(msg, ticks) ==
    /\ steps < MaxSteps
    /\ Handle(msg, ticks)

\* A pending tick fires.
Tick ==
    /\ status = "running"
    /\ pending > 0
    /\ Deliver(TickMsg, 1)

\* The user presses a key.
Key ==
    /\ status = "running"
    /\ \E k \in Keys(prog) : Deliver(KeyMsg(k), 0)

\* The terminal is resized.
Resize ==
    /\ status = "running"
    /\ \E sz \in Sizes : Deliver(WindowSizeMsg(sz[1], sz[2]), 0)

Rendered(v) ==
    /\ frame' = v.frame
    /\ seed' = v.seed
    /\ status' = IF v.panic THEN "panic" ELSE "running"
    /\ fault' = IF ~v.panic THEN ""
                ELSE IF prog = "progress" THEN "repeat" ELSE "make"

\* The runtime renders the model.
Render ==
    /\ status = "running"
    /\ renders < MaxRenders
    /\ Rendered(View(prog, m, seed))
    /\ last' = ViewStep
    /\ renders' = renders + 1
    /\ UNCHANGED <<prog, m, cmd, pending, steps, proc>>

\* main after p.Run(): an error is printed with fmt.Printf and the process
\* exits with code 1; without an error main returns, after running the
\* chosen example when the program was the launcher and a choice was made.
\* The driver can fail at any point of the run.
Fail ==
    /\ status = "running"
    /\ status' = "failed"
    /\ proc' = [proc EXCEPT !.phase = "exited", !.code = 1, !.stdout = "Error: "]
    /\ last' = NoMsg
    /\ UNCHANGED <<prog, m, fault, cmd, pending, frame, seed, steps, renders>>

Exit ==
    /\ status = "quit"
    /\ proc.phase = "run"
    /\ ~(prog = "showcase" /\ m.choice # "")
    /\ proc' = [proc EXCEPT !.phase = "exited", !.code = 0]
    /\ last' = NoMsg
    /\ UNCHANGED <<prog, m, status, fault, cmd, pending, frame, seed, steps, renders>>

\* exec.Command("go", "run", m.choice) is started and main waits for it.
Launch ==
    /\ status = "quit"
    /\ proc.phase = "run"
    /\ prog = "showcase" /\ m.choice # ""
    /\ proc' = [proc EXCEPT !.phase = "child", !.child = m.choice]
    /\ last' = NoMsg
    /\ UNCHANGED <<prog, m, status, fault, cmd, pending, frame, seed, steps, renders>>

\* The child exits, with or without an error, and main ends.
Reap ==
    /\ proc.phase = "child"
    /\ \E ok \in BOOLEAN :
          proc' = IF ok THEN [proc EXCEPT !.phase = "exited", !.code = 0]
                  ELSE [proc EXCEPT !.phase = "exited", !.code = 1,
                                    !.stdout = "Error running example: "]
    /\ UNCHANGED <<prog, m, status, fault, cmd, pending, last, frame, seed, steps, renders>>

Next == Tick \/ Key \/ Resize \/ Render \/ Fail \/ Exit \/ Launch \/ Reap

Spec == Init /\ [][Next]_vars

\* ------------------------------------------------- the glyph mappers alone
\* The three mappers applied to intensities in and out of [0, 1]; m records
\* the call and the index it computed, and indexing the glyph table with an
\* index outside it panics.
Intensities == {50 * i : i \in -MaxIntensity .. 2 * MaxIntensity}
Thresholds == {300, 1000, 3000}

Mapped(fn, value, threshold, index, n) ==
    /\ prog = "glyphs"
    /\ steps < MaxCalls
    /\ m' = [fn |-> fn, value |-> value, threshold |-> threshold, index |-> index,
             n |-> n]
    /\ status' = IF index \in 0 .. n - 1 THEN "running" ELSE "panic"
    /\ fault' = IF index \in 0 .. n - 1 THEN "" ELSE "index"
    /\ steps' = steps + 1
    /\ UNCHANGED <<prog, cmd, pending, last, frame, seed, renders, proc>>

MapPlasma ==
    /\ status = "running"
    /\ \E v \in Intensities :
          Mapped("getPlasmaChar", v, 0, GetPlasmaCharIndex(v), PlasmaChars)

MapMetaball ==
    /\ status = "running"
    /\ \E v \in Intensities : \E t \in Thresholds :
          Mapped("getMetaballChar", v, t, GetMetaballCharIndex(v, t), MetaballChars)

MapWave ==
    /\ status = "running"
    /\ \E v \in Intensities :
          Mapped("GetWaveChar", v, 0, GetWaveCharIndex(v), WaveChars)

\* The colour tables of the plasma and vaporwave modes hold 4, 5 or 6 entries.
MapColor ==
    /\ status = "running"
    /\ \E v \in Intensities : \E n \in {4, 5, 6} :
          Mapped("getColorFromIntensity", v, 0, GetColorFromIntensityIndex(v, n), n)

GlyphInit ==
    /\ prog = "glyphs"
    /\ m = [fn |-> "", value |-> 0, threshold |-> 0, index |-> 0, n |-> 1]
    /\ status = "running"
    /\ fault = ""
    /\ cmd = "none"
    /\ pending = 0
    /\ last = NoMsg
    /\ frame = <<>>
    /\ seed = 0
    /\ steps = 0
    /\ renders = 0
    /\ proc = [phase |-> "run", code |-> 0, stdout |-> "", stderr |-> "", child |-> ""]

GlyphNext == MapPlasma \/ MapMetaball \/ MapWave \/ MapColor

GlyphSpec == GlyphInit /\ [][GlyphNext]_vars

\* ---------------------------------------------- the parameter keys alone
\* The demos whose arrow keys (and, in the starfield, + = -) adjust a scalar,
\* driven by those keys only: every press goes through the demo's own Update.
Press ==
    /\ status = "running"
    /\ steps < MaxPresses
    /\ \E k \in {"up", "down", "left", "right", "0", "+", "=", "-"} \cap Keys(prog) :
          /\ Returned(Update(prog, m, KeyMsg(k), seed), 0)
          /\ last' = KeyMsg(k)
    /\ steps' = steps + 1
    /\ renders' = 0
    /\ UNCHANGED <<prog, frame, proc>>

KnobInit ==
    Init /\ prog \in {"plasma", "fire", "fluid", "life", "particles", "starfield"}

KnobSpec == KnobInit /\ [][Press]_vars

\* ------------------------------------------------------------- long runs
\* The demos that simulate entities over many ticks: a run opens with up to
\* MaxSetup keys or resizes (ticks may fall between them) and goes on with
\* ticks alone, MaxTicks messages in all.
Arrange ==
    /\ status = "running"
    /\ steps < MaxSetup
    /\ \E k \in {"up", "left", "right", "g", "space", "a", "3"} \cap Keys(prog) : Handle(KeyMsg(k), 0)

Fit ==
    /\ status = "running"
    /\ steps < MaxSetup
    /\ \E sz \in {<<1, 5>>, <<3, 12>>} : Handle(WindowSizeMsg(sz[1], sz[2]), 0)

Beat ==
    /\ status = "running"
    /\ steps < MaxTicks
    /\ pending > 0
    /\ Handle(TickMsg, 1)

RunInit == Init /\ prog \in {"audio", "particles", "ball", "fluid", "fire"}

RunSpec == RunInit /\ [][Arrange \/ Fit \/ Beat]_vars

\* ------------------------------------------------------ line drawing alone
\* drawLine called with every pair of endpoints in range on a screen three
\* columns wide and two rows high; each step is one pass through its loop,
\* and the loop runs on whenever it can.
DrawLineInit ==
    /\ prog = "drawLine"
    /\ \E x0, y0, x1, y1 \in -MaxCoord .. MaxCoord :
          m = [x0 |-> x0, y0 |-> y0, x1 |-> x1, y1 |-> y1, x |-> x0, y |-> y0,
               err |-> Abs(x1 - x0) - Abs(y1 - y0), width |-> 3, height |-> 2,
               cells |-> {}, done |-> FALSE]
    /\ status = "running"
    /\ fault = ""
    /\ cmd = "none"
    /\ pending = 0
    /\ last = NoMsg
    /\ frame = <<>>
    /\ seed = 0
    /\ steps = 0
    /\ renders = 0
    /\ proc = [phase |-> "run", code |-> 0, stdout |-> "", stderr |-> "", child |-> ""]

DrawLineStep ==
    /\ prog = "drawLine"
    /\ ~m.done
    /\ m' = DrawLineBody(m, m.width, m.height)
    /\ steps' = steps + 1
    /\ UNCHANGED <<prog, status, fault, cmd, pending, last, frame, seed, renders, proc>>

DrawLineSpec == DrawLineInit /\ [][DrawLineStep]_vars /\ WF_vars(DrawLineStep)

\* ------------------------------------------------------------ the claims
\* The array a demo sizes to the terminal, and the value of a blank cell.
StoredArray ==
    CASE prog = "fire" -> m.fireField
      [] prog = "fluid" -> m.surface
      [] OTHER -> m.grid
BlankCell == IF prog \in {"fire", "fluid"} THEN 0 ELSE " "

\* C1: in every demo with a paused flag, handling a tick while paused leaves
\* every field of the model unchanged, tick after tick.
C1_PausedTickKeepsModel ==
    [][(prog \in PausedPrograms /\ m.paused /\ last' = TickMsg /\ steps' = steps + 1)
          => m' = m]_vars

\* A paused fire with an allocated field has just handled a tick.
C1_PausedTickHandled ==
    prog = "fire" /\ m.paused /\ last = TickMsg /\ Size(m.fireField) > 0

\* C2: in every animated demo a handled tick returns the next tick whether
\* paused or not, a resize or a non-quit key returns no tick, and so exactly
\* one tick is pending for as long as the program runs.
C2_OneTickPending ==
    /\ (prog \in Programs /\ status = "running") => pending = 1
    /\ (last.type = "tick" /\ status # "panic") => cmd = "tick"
    /\ (last.type = "resize" \/ (last.type = "key" /\ last.key \notin {"q", "ctrl+c"}))
          => cmd # "tick"

\* A paused game of life has just handled a tick and re-armed it.
C2_PausedTickRearmed ==
    prog = "life" /\ m.paused /\ last = TickMsg /\ cmd = "tick" /\ pending = 1

\* C3: in every demo with a paused flag, only the space key changes the
\* paused flag; a tick, a resize, a reset or any other key leaves it alone.
C3_PausedOnlyOnSpace ==
    [][(prog \in PausedPrograms /\ steps' = steps + 1 /\ last' # KeyMsg("space"))
          => m'.paused = m.paused]_vars

\* C4: in both scrollers, after a reset the frame clock is zero and the
\* scroll position is the one of the startup model.
C4_ResetRestoresScroll ==
    (prog \in {"scroller", "gridscroller"} /\ last = KeyMsg("r"))
        => (m.time = 0 /\ m.scrollPos = InitialModel(prog, 0).m.scrollPos)

\* The demos whose reset handler draws no random number.
ResetPrograms ==
    {"plasma", "tunnel", "rotozoom", "scroller", "gridscroller", "cube", "mandelbrot",
     "progress", "ball", "particles", "fluid", "fire", "audio"}

\* C5: in a demo whose reset draws no random number, a second reset right
\* after a reset returns the same model (and no command, and draws nothing).
C5_ResetIdempotent ==
    (prog \in ResetPrograms /\ last = KeyMsg("r") /\ status = "running")
        => Update(prog, m, KeyMsg("r"), seed) = Ret(m, "none", seed)

\* The rotozoom was reset after its pattern had been changed.
C5_ResetAfterChange ==
    prog = "rotozoom" /\ last = KeyMsg("r") /\ m.pattern # 0 /\ m.rotation = 0

\* C6: in the grid scroller, the grid vaporwave, the fire and the fluid demo,
\* right after a resize to W columns and H rows the stored array has H-4
\* rows of W blank cells.
C6_ResizeAllocatesBlank ==
    (prog \in {"gridscroller", "gridvaporwave", "fire", "fluid"} /\ last.type = "resize")
        => /\ status = "running"
           /\ DOMAIN StoredArray = 0 .. last.h - 5
           /\ \A y \in DOMAIN StoredArray :
                 StoredArray[y] = [x \in 0 .. last.w - 1 |-> BlankCell]

\* C7: an allocated fire field, fluid surface, life board or scroller or
\* vaporwave grid has height rows of width cells, and the matrix rain has
\* width columns of height runes.
C7_ArraysMatchSize ==
    /\ (prog \in {"fire", "fluid", "life", "gridscroller", "gridvaporwave"}
            /\ Size(IF prog = "life" THEN m.grid ELSE StoredArray) > 0)
          => LET a == IF prog = "life" THEN m.grid ELSE StoredArray
             IN  /\ DOMAIN a = 0 .. m.height - 1
                 /\ \A y \in DOMAIN a : DOMAIN a[y] = 0 .. m.width - 1
    /\ (prog = "matrix" /\ Len(m.columns) > 0)
          => /\ Len(m.columns) = m.width
             /\ \A i \in DOMAIN m.columns :
                   DOMAIN m.columns[i].chars = 0 .. m.height - 1

\* A game of life resized to 3 columns and 12 rows has just handled a tick.
C7_ResizedBoardTicked ==
    prog = "life" /\ last = TickMsg /\ m.width = 3 /\ Size(m.grid) = 8

\* C8: handling a resize and rendering the next frame never allocates with
\* a negative length and never repeats a glyph a negative number of times.
C8_NoNegativeAllocation == fault \notin {"make", "repeat"}

\* C9: getPlasmaChar, getMetaballChar and GetWaveChar index their glyph
\* table within 0 .. N-1 for every intensity.
C9_GlyphIndexInRange == prog = "glyphs" => m.index \in 0 .. m.n - 1

\* C10: in the fire and the fluid demo two renders in a row of a paused
\* model give the same character grid.
C10_RendersRepeat ==
    [][(prog \in {"fire", "fluid"} /\ m.paused /\ last = ViewStep /\ last' = ViewStep)
          => frame' = frame]_vars

\* C11: after any sequence of arrow-key presses the plasma speed is within
\* [0.1, 3.0] and its intensity within [0.3, 2.0], the fire intensity within
\* [0.1, 2.0] and its wind within [-1.0, 1.0], the fluid gravity within
\* [0.1, 1.0] and its viscosity within [0.90, 0.99], and the game-of-life
\* tick period within [50 ms, 1 s].
C11_KnobsInRange ==
    /\ prog = "plasma" =>
          m.speed \in 100 .. 3000 /\ m.intensity \in 300 .. 2000
    /\ prog = "fire" =>
          m.intensity \in 100 .. 2000 /\ m.windForce \in -1000 .. 1000
    /\ prog = "fluid" =>
          m.gravity \in 100 .. 1000 /\ m.viscosity \in 900 .. 990
    /\ prog = "life" => m.speed \in 50000000 .. 1000000000

\* The plasma speed was at its maximum and up was pressed again.
C11_SpeedHeldAtMax ==
    /\ prog = "plasma" /\ m.speed = 3000 /\ last = KeyMsg("up") /\ steps > 10

\* C12: in the particle system the wind stays within a fixed range after
\* any sequence of left and right presses; the range tried is [-1.0, 1.0],
\* the one the fire demo keeps its wind in.
C12_ParticleWindInRange == prog = "particles" => m.wind \in -1000 .. 1000

\* C13: in the particle system, while the status line reports 'Paused'
\* (emitting is off) a tick leaves every particle's position, velocity and
\* life unchanged and removes no particle.
C13_PausedParticlesKept ==
    [][(prog = "particles" /\ ~m.emitting /\ last' = TickMsg /\ steps' = steps + 1)
          => m'.particles = m.particles]_vars

\* C14: handling a tick leaves the configuration alone: the palette or mode
\* and the speed and intensity scalars the keys set are the same after a
\* tick as before it, the audio visualizer's intensity in particular.
C14_TickKeepsConfig ==
    [][(last' = TickMsg /\ steps' = steps + 1 /\ status' = "running")
          => /\ prog \in {"audio", "fire"} => m'.intensity = m.intensity
             /\ prog \in {"audio", "fluid"} => m'.mode = m.mode
             /\ prog = "fire" => m'.windForce = m.windForce
             /\ prog \in {"fluid", "ball", "particles"} => m'.gravity = m.gravity
             /\ prog = "particles" => m'.wind = m.wind]_vars

\* C15: in every program a ctrl+c key message gets the quit command at
\* once, whatever the mode or the pause state, and no new tick with it.
C15_InterruptQuits ==
    last = KeyMsg("ctrl+c") => (cmd = "quit" /\ status = "quit")

\* C16: the launcher starts exactly the entry Enter was pressed on, as a
\* child process, and once the child has exited it is back in its menu loop.
C16_LauncherResumes ==
    prog = "showcase" =>
        /\ proc.phase = "child" =>
              (proc.child = ShowcaseItems[m.cursor] /\ proc.child # "")
        /\ (proc.child # "" /\ proc.phase # "child") => status = "running"

\* C17: when Run returns an error the error is on standard error and the
\* exit code is not 0, and a clean quit exits with code 0.
C17_ErrorsOnStderr ==
    /\ status = "failed" =>
          (proc.phase = "exited" /\ proc.stderr # "" /\ proc.code # 0)
    /\ (status = "quit" /\ proc.phase = "exited" /\ proc.child = "") => proc.code = 0

\* C18: a particle starts with life 1.0 and loses 0.02 per tick; on every
\* tick a particle that has been through fewer than 49 ticks is kept,
\* whatever its velocity and whatever the gravity and the wind, and no
\* particle is kept by its 50th tick.
C18_LivesFiftyTicks ==
    [][(prog = "particles" /\ last' = TickMsg /\ steps' = steps + 1)
          => /\ \A i \in DOMAIN m.particles :
                    m.particles[i].life > 20 =>
                        \E j \in DOMAIN m'.particles :
                            m'.particles[j] = MoveParticle(m.particles[i], m)
             /\ \A j \in DOMAIN m'.particles :
                    m'.particles[j].life \in {20 * k : k \in 1 .. 49}]_vars

\* C18 amended: the same for the particles that the tick leaves inside the
\* window (0 <= x < width and y < height); one that leaves it is removed.
C18_LivesFiftyTicksInside ==
    [][(prog = "particles" /\ last' = TickMsg /\ steps' = steps + 1)
          => /\ \A i \in DOMAIN m.particles :
                    LET q == MoveParticle(m.particles[i], m)
                    IN  (m.particles[i].life > 20 /\ q.y < F(m.height)
                            /\ q.x >= 0 /\ q.x < F(m.width))
                        => \E j \in DOMAIN m'.particles : m'.particles[j] = q
             /\ \A j \in DOMAIN m'.particles :
                    m'.particles[j].life \in {20 * k : k \in 1 .. 49}]_vars

\* A particle has been through 49 ticks and is still active.
C18_ParticleAtLastTick ==
    /\ prog = "particles" /\ last = TickMsg
    /\ \E i \in DOMAIN m.particles : m.particles[i].life = 20

\* C19: after an unpaused tick of the bouncing ball in a window of at least
\* 2 by 2 every ball has 0 <= x <= width-1 and 0 <= y <= height-1, and after
\* an unpaused tick of the fluid demo every droplet that is still there has
\* 0 <= x <= width-1.
C19_EntitiesInBounds ==
    /\ (prog = "ball" /\ last = TickMsg /\ ~m.paused /\ m.width >= 2 /\ m.height >= 2)
          => \A i \in DOMAIN m.balls :
                /\ m.balls[i].x >= 0 /\ m.balls[i].x <= F(m.width - 1)
                /\ m.balls[i].y >= 0 /\ m.balls[i].y <= F(m.height - 1)
    /\ (prog = "fluid" /\ last = TickMsg /\ ~m.paused /\ Size(m.surface) > 0)
          => \A i \in DOMAIN m.droplets :
                m.droplets[i].x >= 0 /\ m.droplets[i].x <= F(m.width - 1)

\* C19 amended: the same, with 0 <= x < width for the droplets of a fluid
\* window at least one column wide.
C19_EntitiesInsideWindow ==
    /\ (prog = "ball" /\ last = TickMsg /\ ~m.paused /\ m.width >= 2 /\ m.height >= 2)
          => \A i \in DOMAIN m.balls :
                /\ m.balls[i].x >= 0 /\ m.balls[i].x <= F(m.width - 1)
                /\ m.balls[i].y >= 0 /\ m.balls[i].y <= F(m.height - 1)
    /\ (prog = "fluid" /\ last = TickMsg /\ ~m.paused /\ Size(m.surface) > 0
            /\ m.width >= 1)
          => \A i \in DOMAIN m.droplets :
                m.droplets[i].x >= 0 /\ m.droplets[i].x < F(m.width)

\* A ball has just bounced off the left wall of a three-column window.
C19_BallAtLeftWall ==
    /\ prog = "ball" /\ last = TickMsg /\ ~m.paused /\ m.width = 3
    /\ \E i \in DOMAIN m.balls : m.balls[i].x = 0 /\ m.balls[i].vx > 0

\* C20: in the fire demo at intensity 1.0 with a field of one row and one
\* column, after a tick that injected the heat sources and propagated, row 0
\* of the new field holds strictly less heat than row height-1.
C20_TopCoolerThanBottom ==
    (prog = "fire" /\ last = TickMsg /\ ~m.paused /\ m.intensity = 1000
        /\ m.height = 1 /\ m.width = 1 /\ Size(m.fireField) = 1)
      => m.fireField[0][0] < m.fireField[m.height - 1][0]

\* C20 amended: after a tick that injected the heat sources and propagated,
\* every cell of row 0 of the new field holds 0.0, which is no more than the
\* heat of row height-1 in the same column; in a field of one row the two rows
\* are the same cell.
C20_TopRowCold ==
    (prog = "fire" /\ last = TickMsg /\ ~m.paused /\ Size(m.fireField) > 0
        /\ m.width >= 1)
      => \A x \in 0 .. m.width - 1 :
            /\ m.fireField[0][x] = 0
            /\ m.fireField[0][x] <= m.fireField[m.height - 1][x]

\* The one-cell fire field has just been through a tick at intensity 1.0.
C20_OneCellFieldTicked ==
    /\ prog = "fire" /\ last = TickMsg /\ ~m.paused /\ m.intensity = 1000
    /\ m.height = 1 /\ m.width = 1 /\ Size(m.fireField) = 1

\* C21: the index GetWaveChar and the colour helpers compute for a table of
\* N entries is floor(clamp(intensity, 0, 1) * (N-1)), for every intensity.
C21_BucketIndexFormula ==
    (prog = "glyphs" /\ m.fn \in {"GetWaveChar", "getColorFromIntensity"})
      => m.index = IntOf(Clamp(m.value, 0, S) * (m.n - 1))

\* C22: a tick of the running Game of Life replaces the board by the Conway
\* step of the board before the tick: a live cell stays alive iff 2 or 3 of
\* its 8 neighbours were alive, a dead cell becomes alive iff exactly 3 were,
\* and a neighbour outside the board counts as dead.
C22_ConwayStep ==
    [][(prog = "life" /\ last' = TickMsg /\ ~m.paused /\ Size(m.grid) > 0
            /\ status' = "running")
        => /\ DOMAIN m'.grid = DOMAIN m.grid
           /\ \A y \in DOMAIN m.grid :
                /\ DOMAIN m'.grid[y] = DOMAIN m.grid[y]
                /\ \A x \in DOMAIN m.grid[y] :
                      LET live(c) == /\ c[2] \in DOMAIN m.grid
                                     /\ c[1] \in DOMAIN m.grid[c[2]]
                                     /\ m.grid[c[2]][c[1]].alive
                          around == {c \in (x - 1 .. x + 1) \X (y - 1 .. y + 1) :
                                        c # <<x, y>> /\ live(c)}
                          n == Cardinality(around)
                      IN  m'.grid[y][x].alive
                            = IF m.grid[y][x].alive THEN n \in {2, 3} ELSE n = 3]_vars

\* A tick has just produced a generation in which one cell survived and
\* another was born.
C22_BirthAndSurvival ==
    /\ prog = "life" /\ last = TickMsg /\ ~m.paused /\ m.generation >= 1
    /\ \E y \in DOMAIN m.grid : \E x \in DOMAIN m.grid[y] :
          m.grid[y][x].alive /\ m.grid[y][x].age = 0
    /\ \E y \in DOMAIN m.grid : \E x \in DOMAIN m.grid[y] :
          m.grid[y][x].alive /\ m.grid[y][x].age >= 1

\* C23: in the Game of Life, seeding a pattern (on a resize, a reset or a
\* pattern key) into a board at least one cell wide and one cell high does
\* not fault.
C23_SeedingStaysInBoard ==
    LET w == IF last.type = "resize" THEN last.w ELSE m.width
        h == IF last.type = "resize" THEN last.h - 4 ELSE m.height
    IN  (/\ prog = "life"
         /\ \/ last.type = "resize"
            \/ last \in {KeyMsg(k) : k \in {"r", "1", "2", "3", "4", "5"}}
         /\ w >= 1 /\ h >= 1)
          => status # "panic"

\* C24: in the metaballs and bouncing-ball demos a tick never turns a ball
\* back toward a wall it was moving away from: a ball moving left (up) that
\* does not reach the left (top) wall is not moving right (down) after the
\* tick, and the other way round.  The metaballs' wobble adds at most 0.05
\* to a component, so slower metaballs are left out.
C24_NoFlipTowardWall ==
    [][(last' = TickMsg /\ ~m.paused /\ status' = "running")
        => LET Kept(v, p1, lo, hi, after, eps) ==
                  /\ (v < -eps /\ p1 > lo) => after <= 0
                  /\ (v > eps /\ p1 < hi) => after >= 0
           IN  /\ prog = "metaballs" =>
                    \A i \in DOMAIN m.metaballs :
                        LET b == m.metaballs[i]
                            a == m'.metaballs[i]
                        IN  /\ Kept(b.vx, b.x + b.vx, b.radius,
                                    F(m.width) - b.radius, a.vx, 50)
                            /\ Kept(b.vy, b.y + b.vy, b.radius,
                                    F(m.height) - b.radius, a.vy, 50)
               /\ prog = "ball" =>
                    \A i \in DOMAIN m.balls :
                        LET b == m.balls[i]
                            a == m'.balls[i]
                            vy1 == b.vy + m.gravity
                        IN  /\ Kept(b.vx, b.x + b.vx, 0, F(m.width - 1), a.vx, 0)
                            /\ Kept(vy1, b.y + vy1, 0, F(m.height - 1), a.vy, 0)]_vars

C26_StarDepthPositive ==
    prog = "starfield" => \A i \in DOMAIN m.stars : m.stars[i].z > 0

\* C27: in the starfield a press of up, + or = never lowers the speed and a
\* press of down or - never raises it.
C27_SpeedKeysMonotone ==
    [][(prog = "starfield" /\ last'.type = "key" /\ status' = "running")
        => /\ last'.key \in {"up", "+", "="} => m'.speed >= m.speed
           /\ last'.key \in {"down", "-"} => m'.speed <= m.speed]_vars

\* C28: drawLine ends for every pair of endpoints, on or far off the screen,
\* within max(|x1-x0|, |y1-y0|) + 1 passes of its loop, and writes only cells
\* with 0 <= x < width and 0 <= y < height.
C28_DrawLineEnds ==
    /\ [](prog = "drawLine" =>
            /\ \A c \in m.cells :
                  c[1] >= 0 /\ c[1] < m.width /\ c[2] >= 0 /\ c[2] < m.height
            /\ steps <= Max(Abs(m.x1 - m.x0), Abs(m.y1 - m.y0)) + 1)
    /\ <>(prog = "drawLine" /\ m.done)

\* A line between two points off the screen, on opposite sides of it, has
\* been drawn to its end and has written a cell.
C28_LineAcrossScreen ==
    /\ prog = "drawLine" /\ m.done
    /\ m.x0 < 0 /\ m.x1 >= m.width /\ m.y0 < 0 /\ m.y1 >= m.height
    /\ m.cells # {}

\* C29: in the table demo a key other than Enter never makes the details
\* panel appear: when View does not draw the panel for the model before the
\* key (as after a row was deleted with the panel open), it does not draw it
\* for the model after the key.
C29_PanelStaysClosed ==
    [][(prog = "table" /\ last'.type = "key" /\ last'.key # "enter"
            /\ status' = "running" /\ ~TableShowsDetails(m))
        => ~TableShowsDetails(m')]_vars

\* C30: in the file picker, once a frame has shown the error, the frame drawn
\* after Enter has selected an allowed file shows the selection.
C30_ErrorClearedOnceShown ==
    [][(prog = "filepicker" /\ last' = ViewStep /\ last = KeyMsg("enter")
            /\ frame = <<"error">>
            /\ PickerFiles[m.cursor + 1] \in PickerAllowed
            /\ m.selectedFile = PickerFiles[m.cursor + 1])
        => frame' = <<"selected">>]_vars
====
